---- MODULE Spec2Model ----
(***************************************************************************)
(* A model of the black-oil TPFA local residual                            *)
(* (opm/models/blackoil/blackoillocalresidualtpfa.hh): computeStorage,     *)
(* computeFlux, computeSource, evalPhaseFluxes_ and                        *)
(* adaptMassConservationQuantities_; and of IMPETProblem2P2C               *)
(* (dumux/decoupled/2p2c/2p2cproblem.hh), StokesExtensiveQuantities        *)
(* (ewoms/models/stokes/stokesextensivequantities.hh) and                  *)
(* VtkCompositionModule (ewoms/io/vtkcompositionmodule.hh).                *)
(*                                                                         *)
(* Scalars are integers.  An Evaluation (dual number) is a record          *)
(* [v, d]: v is the value, d the set of derivative tags <<quantity, dof>>  *)
(* the value still carries; a plain Scalar has d = {}.                     *)
(***************************************************************************)
EXTENDS Integers, Sequences, FiniteSets, TLC

VARIABLES config, intQuants, args, pc, storage, flux, source, residual, pending,
          lookups, calls, values, result, extQuants, buffers

vars == <<config, intQuants, args, pc, storage, flux, source, residual, pending,
          lookups, calls, values, result, extQuants, buffers>>

(***************************************************************************)
(* Bounds of the model.                                                    *)
(***************************************************************************)
\* fluid-state snapshots the cells draw from: ids 1..NumSnapshots
NumSnapshots == 3
\* threshold pressures of a face: 0..MaxThpres
MaxThpres == 2
\* gravity-projected depth differences distZ*g of a face: -MaxDepth..MaxDepth
MaxDepth == 1

\* at most this many extension modules are enabled together
MaxModules == 2

\* BlackOilEnergyScalingFactor
MaxScalingFactor == 3

(***************************************************************************)
(* Program constants.                                                      *)
(***************************************************************************)
numPhases == 3
conti0EqIdx == 0

Phases == {"water", "oil", "gas"}
waterPhaseIdx == "water"
oilPhaseIdx == "oil"
gasPhaseIdx == "gas"

Comps == {"waterComp", "oilComp", "gasComp"}
waterCompIdx == "waterComp"
oilCompIdx == "oilComp"
gasCompIdx == "gasComp"

\* FluidSystem::solventComponentIndex: the component a phase is named after
solventComponentIndex(phase) ==
    CASE phase = "water" -> waterCompIdx
      [] phase = "oil" -> oilCompIdx
      [] phase = "gas" -> gasCompIdx

\* the phase whose main component comp is
phaseOfComp(comp) ==
    CHOOSE phase \in Phases : solventComponentIndex(phase) = comp

(***************************************************************************)
(* The evaluation abstraction.                                             *)
(***************************************************************************)
Const(x) == [v |-> x, d |-> {}]

\* Toolbox::value: the plain scalar of an evaluation
Value(a) == Const(a.v)

\* decay<LhsEval>: keeps the derivatives when LhsEval is Evaluation, strips
\* them when it is Scalar
Decay(a, keep) == IF keep THEN a ELSE Value(a)

\* the variable of index idx with value x
Variable(x, idx) == [v |-> x, d |-> {<<"variable", idx>>}]

\* product rule: (ab)' = a'b + ab'
Mul(a, b) ==
    [v |-> a.v * b.v,
     d |-> (IF b.v # 0 THEN a.d ELSE {}) \cup (IF a.v # 0 THEN b.d ELSE {})]

Add(a, b) == [v |-> a.v + b.v, d |-> a.d \cup b.d]

Abs(x) == IF x < 0 THEN -x ELSE x

Pick(table, s) == table[((s - 1) % Len(table)) + 1]

(***************************************************************************)
(* The fluid-state provider: the intensive quantities of snapshot s, held  *)
(* by dof.  Every quantity is an Evaluation carrying the derivatives with  *)
(* respect to the primary variables of its own dof.                        *)
(***************************************************************************)
Snapshots == 1..NumSnapshots

PhaseTable(phase, tw, to, tg) ==
    CASE phase = "water" -> tw
      [] phase = "oil" -> to
      [] phase = "gas" -> tg

Quantity(name, dof, x) == [v |-> x, d |-> {<<name, dof>>}]

saturation(iq, dof, phase) ==
    Quantity("saturation", dof,
             Pick(PhaseTable(phase, <<1, 2, 3>>, <<2, 1, 1>>, <<1, 3, 2>>), iq[dof]))

invB(iq, dof, phase) ==
    Quantity("invB", dof,
             Pick(PhaseTable(phase, <<1, 2, 1>>, <<2, 1, 3>>, <<3, 3, 2>>), iq[dof]))

pressure(iq, dof, phase) ==
    Quantity("pressure", dof,
             Pick(PhaseTable(phase, <<5, 5, 8>>, <<7, 4, 6>>, <<9, 12, 9>>), iq[dof]))

mobility(iq, dof, phase) ==
    Quantity("mobility", dof,
             Pick(PhaseTable(phase, <<2, 1, 3>>, <<1, 3, 2>>, <<3, 2, 1>>), iq[dof]))

\* the phases are taken incompressible: the density depends on the phase only
density(iq, dof, phase) ==
    Quantity("density", dof, PhaseTable(phase, 3, 2, 1))

Rs(iq, dof) == Quantity("Rs", dof, Pick(<<5, 7, 3>>, iq[dof]))

Rv(iq, dof) == Quantity("Rv", dof, Pick(<<2, 3, 5>>, iq[dof]))

Rvw(iq, dof) == Quantity("Rvw", dof, Pick(<<3, 2, 7>>, iq[dof]))

porosity(iq, dof) == Quantity("porosity", dof, Pick(<<2, 3, 1, 2>>, iq[dof]))

pvtRegionIndex(iq, dof) == Pick(<<0, 1, 0, 1, 1>>, iq[dof])

\* FluidSystem::referenceDensity(phaseIdx, pvtRegionIdx)
referenceDensity(phase, pvtRegionIdx) ==
    PhaseTable(phase, 10, 8, 1) + pvtRegionIdx * PhaseTable(phase, 1, 3, 2)

(***************************************************************************)
(* Configuration: the fluid system's run-time switches and the compile     *)
(* time properties.                                                        *)
(*   active         FluidSystem::phaseIsActive                             *)
(*   phaseAt        phaseAt[i + 1] is the phase with phaseIdx i            *)
(*   threePhase     Indices::numPhases == 3 (the three-phase numbering)    *)
(*   modules        the enabled extension modules                          *)
(***************************************************************************)
phaseIsActive(cfg, phase) == phase \in cfg.active

enableDissolvedGas(cfg) == cfg.enableDissolvedGas

enableVaporizedOil(cfg) == cfg.enableVaporizedOil

enableVaporizedWater(cfg) == cfg.enableVaporizedWater

blackoilConserveSurfaceVolume(cfg) == cfg.blackoilConserveSurfaceVolume

\* Indices::waterEnabled / oilEnabled / gasEnabled: under the three-phase
\* numbering every component has a slot; under the compacted numbering a
\* component is enabled exactly if its phase is active
compEnabled(cfg, comp) ==
    cfg.threePhase \/ phaseOfComp(comp) \in cfg.active

\* the canonical (fixed) numbering of the components
canonicalCompIdx(comp) ==
    CASE comp = "oilComp" -> 0
      [] comp = "waterComp" -> 1
      [] comp = "gasComp" -> 2

\* Indices::canonicalToActiveComponentIndex: the compacted numbering over the
\* enabled components, total and injective on them; -1 marks a component
\* that has no slot
canonicalToActiveComponentIndex(cfg, comp) ==
    IF compEnabled(cfg, comp)
    THEN Cardinality({c \in Comps : /\ compEnabled(cfg, c)
                                    /\ canonicalCompIdx(c) < canonicalCompIdx(comp)})
    ELSE -1

numEnabledComps(cfg) == Cardinality({c \in Comps : compEnabled(cfg, c)})

(***************************************************************************)
(* Equation slots.  The component equations come first, the equations of   *)
(* the enabled extension modules follow in the order of the module chain.  *)
(***************************************************************************)
ModuleOrder == <<"solvent", "extbo", "polymer", "energy", "foam", "brine", "micp">>

Modules == {ModuleOrder[i] : i \in 1..Len(ModuleOrder)}

modulePos(m) == CHOOSE i \in 1..Len(ModuleOrder) : ModuleOrder[i] = m

enableEnergy(cfg) == "energy" \in cfg.modules

\* Indices::contiSolventEqIdx, contiEnergyEqIdx, ...: the slot module m owns
contiModuleEqIdx(cfg, m) ==
    conti0EqIdx + numEnabledComps(cfg)
        + Cardinality({n \in cfg.modules : modulePos(n) < modulePos(m)})

numEq(cfg) == numEnabledComps(cfg) + Cardinality(cfg.modules)

EqIdxs(cfg) == 0..(numEq(cfg) - 1)

\* vec = 0.0
ZeroVector(cfg) == [i \in EqIdxs(cfg) |-> Const(0)]

\* mutant: the output vector is not reset
ResetVector_Keep(prior, cfg) == prior

\* storage = 0.0, flux = 0.0: whatever the output vector held is overwritten
ResetVector(prior, cfg) == ZeroVector(cfg)

\* vec[idx] += val
AddTo(vec, idx, val) == [vec EXCEPT ![idx] = Add(@, val)]

\* vec[idx] *= k, k a plain scalar
ScaleAt(vec, idx, k) == [vec EXCEPT ![idx] = Mul(@, Const(k))]

compEqIdx(cfg, comp) == conti0EqIdx + canonicalToActiveComponentIndex(cfg, comp)

(***************************************************************************)
(* The physics module chain.  A module adds to the slot it owns; a         *)
(* disabled module's call is a no-op.                                      *)
(***************************************************************************)
moduleStorage(m, iq, dof) == Const(modulePos(m) + porosity(iq, dof).v)

ModuleAddStorage(cfg, m, vec, iq, dof) ==
    IF m \in cfg.modules
    THEN AddTo(vec, contiModuleEqIdx(cfg, m), moduleStorage(m, iq, dof))
    ELSE vec

\* mutant: the last call of the chain (MICP) is missing
RECURSIVE AddStorageChain_NoMICP(_, _, _, _, _)
AddStorageChain_NoMICP(cfg, vec, iq, dof, i) ==
    IF i > Len(ModuleOrder) - 1
    THEN vec
    ELSE AddStorageChain_NoMICP(cfg, ModuleAddStorage(cfg, ModuleOrder[i], vec, iq, dof),
                                iq, dof, i + 1)

RECURSIVE AddStorageChain(_, _, _, _, _)
AddStorageChain(cfg, vec, iq, dof, i) ==
    IF i > Len(ModuleOrder)
    THEN vec
    ELSE AddStorageChain(cfg, ModuleAddStorage(cfg, ModuleOrder[i], vec, iq, dof),
                         iq, dof, i + 1)

(***************************************************************************)
(* adaptMassConservationQuantities_                                        *)
(***************************************************************************)
AdaptComp(cfg, container, comp, pvtRegionIdx) ==
    IF compEnabled(cfg, comp)
    THEN ScaleAt(container, compEqIdx(cfg, comp),
                 referenceDensity(phaseOfComp(comp), pvtRegionIdx))
    ELSE container

\* mutant: the gas component is not converted
adaptMassConservationQuantities_NoGas(cfg, container, pvtRegionIdx) ==
    IF blackoilConserveSurfaceVolume(cfg)
    THEN container
    ELSE AdaptComp(cfg,
             AdaptComp(cfg, container, waterCompIdx, pvtRegionIdx),
             oilCompIdx, pvtRegionIdx)

adaptMassConservationQuantities_(cfg, container, pvtRegionIdx) ==
    IF blackoilConserveSurfaceVolume(cfg)
    THEN container
    ELSE AdaptComp(cfg,
             AdaptComp(cfg,
                 AdaptComp(cfg, container, waterCompIdx, pvtRegionIdx),
                 gasCompIdx, pvtRegionIdx),
             oilCompIdx, pvtRegionIdx)

(***************************************************************************)
(* computeStorage                                                          *)
(***************************************************************************)
\* mutant: the porosity factor is forgotten
surfaceVolume_NoPorosity(iq, dof, phase, keep) ==
    Mul(Decay(saturation(iq, dof, phase), keep), Decay(invB(iq, dof, phase), keep))

\* surfaceVolume = saturation * invB * porosity, each decayed to LhsEval
surfaceVolume(iq, dof, phase, keep) ==
    Mul(Mul(Decay(saturation(iq, dof, phase), keep),
            Decay(invB(iq, dof, phase), keep)),
        Decay(porosity(iq, dof), keep))

\* the trivial equation of an inactive (pseudo) phase
StoragePseudoPhase(cfg, st, phase, timeIdx, keep) ==
    IF cfg.threePhase
    THEN LET idx == compEqIdx(cfg, solventComponentIndex(phase))
         IN  [st EXCEPT ![idx] = IF timeIdx = 0 /\ keep
                                 THEN Variable(0, idx)
                                 ELSE Const(0)]
    ELSE st

\* the body of the phase loop for an active phase
StorageActivePhase(cfg, st, iq, dof, phase, keep) ==
    LET sv == surfaceVolume(iq, dof, phase, keep)
        s1 == AddTo(st, compEqIdx(cfg, solventComponentIndex(phase)), sv)
        s2 == IF phase = oilPhaseIdx /\ enableDissolvedGas(cfg)
              THEN AddTo(s1, compEqIdx(cfg, gasCompIdx),
                         Mul(Decay(Rs(iq, dof), keep), sv))
              ELSE s1
        s3 == IF phase = gasPhaseIdx /\ enableVaporizedOil(cfg)
              THEN AddTo(s2, compEqIdx(cfg, oilCompIdx),
                         Mul(Decay(Rv(iq, dof), keep), sv))
              ELSE s2
        s4 == IF phase = gasPhaseIdx /\ enableVaporizedWater(cfg)
              THEN AddTo(s3, compEqIdx(cfg, waterCompIdx),
                         Mul(Decay(Rvw(iq, dof), keep), sv))
              ELSE s3
    IN  s4

StoragePhase(cfg, st, iq, dof, phase, timeIdx, keep) ==
    IF ~phaseIsActive(cfg, phase)
    THEN StoragePseudoPhase(cfg, st, phase, timeIdx, keep)
    ELSE StorageActivePhase(cfg, st, iq, dof, phase, keep)

RECURSIVE StoragePhaseLoop(_, _, _, _, _, _, _)
StoragePhaseLoop(cfg, st, iq, dof, timeIdx, keep, phaseIdx) ==
    IF phaseIdx >= numPhases
    THEN st
    ELSE StoragePhaseLoop(cfg,
             StoragePhase(cfg, st, iq, dof, cfg.phaseAt[phaseIdx + 1], timeIdx, keep),
             iq, dof, timeIdx, keep, phaseIdx + 1)

\* computeStorage writing into an output vector that holds `prior`
computeStorageInto(prior, cfg, iq, dof, timeIdx, keep) ==
    LET phases == StoragePhaseLoop(cfg, ResetVector(prior, cfg), iq, dof, timeIdx, keep, 0)
        adapted == adaptMassConservationQuantities_(cfg, phases, pvtRegionIndex(iq, dof))
    IN  AddStorageChain(cfg, adapted, iq, dof, 1)

\* computeStorage writing into a fresh output vector
computeStorage(cfg, iq, dof, timeIdx, keep) ==
    computeStorageInto(ZeroVector(cfg), cfg, iq, dof, timeIdx, keep)

(***************************************************************************)
(* The face and the problem callbacks of computeFlux.  A face is a record  *)
(*   [interiorIndex, exteriorIndex, focusDofIdx, trans, faceArea, thpres,  *)
(*    distZg]; faceArea divides trans.                                     *)
(***************************************************************************)
\* stencil.globalSpaceIndex
globalSpaceIndex(dof) == 10 * (dof + 1)

\* problem.rockCompTransMultiplier<Evaluation>(intQuants of dof, globalIndex)
rockCompTransMultiplier(iq, dof, globalIndex) ==
    Quantity("transMult", dof, 1 + ((iq[dof] + (globalIndex \div 10)) % 2))

(***************************************************************************)
(* The upwind selector, ExtensiveQuantities::calculatePhasePressureDiff_:  *)
(* the signed potential difference and the upstream dof of a phase.        *)
(***************************************************************************)
\* the threshold-pressure clamp
thresholdClamp(d, thpres) ==
    IF Abs(d) < thpres THEN 0
    ELSE IF d > 0 THEN d - thpres
    ELSE d + thpres

calculatePhasePressureDiff_(iq, interiorDofIdx, exteriorDofIdx, phase, distZg, thpres) ==
    LET raw == pressure(iq, interiorDofIdx, phase).v - pressure(iq, exteriorDofIdx, phase).v
        rawUp == IF raw > 0 THEN interiorDofIdx ELSE exteriorDofIdx
        corrected == raw - distZg * density(iq, rawUp, phase).v
        potential == thresholdClamp(corrected, thpres)
    IN  [upIdx |-> IF potential > 0 THEN interiorDofIdx ELSE exteriorDofIdx,
         dnIdx |-> IF potential > 0 THEN exteriorDofIdx ELSE interiorDofIdx,
         pressureDifference |-> Const(potential)]

(***************************************************************************)
(* evalPhaseFluxes_                                                        *)
(***************************************************************************)
\* getInvB_<FluidSystem, FluidState, UpEval>
getInvB_(iq, up, phase, keep) == Decay(invB(iq, up, phase), keep)

\* mutant: the mass conversion is forgotten
AddFlux_Unscaled(cfg, fl, idx, x, phase, pvtRegionIdx) == AddTo(fl, idx, x)

\* flux[idx] += x in surface-volume mode, x * referenceDensity in mass mode
AddFlux(cfg, fl, idx, x, phase, pvtRegionIdx) ==
    IF blackoilConserveSurfaceVolume(cfg)
    THEN AddTo(fl, idx, x)
    ELSE AddTo(fl, idx, Mul(x, Const(referenceDensity(phase, pvtRegionIdx))))

evalPhaseFluxes_(cfg, fl, phase, pvtRegionIdx, surfaceVolumeFlux, iq, up, keep) ==
    LET f1 == AddFlux(cfg, fl, compEqIdx(cfg, solventComponentIndex(phase)),
                      surfaceVolumeFlux, phase, pvtRegionIdx)
    IN  IF phase = oilPhaseIdx
        THEN IF enableDissolvedGas(cfg)
             THEN AddFlux(cfg, f1, compEqIdx(cfg, gasCompIdx),
                          Mul(Decay(Rs(iq, up), keep), surfaceVolumeFlux),
                          gasPhaseIdx, pvtRegionIdx)
             ELSE f1
        ELSE IF phase = gasPhaseIdx
        THEN LET f2 == IF enableVaporizedOil(cfg)
                       THEN AddFlux(cfg, f1, compEqIdx(cfg, oilCompIdx),
                                    Mul(Decay(Rv(iq, up), keep), surfaceVolumeFlux),
                                    oilPhaseIdx, pvtRegionIdx)
                       ELSE f1
             IN  IF enableVaporizedWater(cfg)
                 THEN AddFlux(cfg, f2, compEqIdx(cfg, waterCompIdx),
                              Mul(Decay(Rvw(iq, up), keep), surfaceVolumeFlux),
                              waterPhaseIdx, pvtRegionIdx)
                 ELSE f2
        ELSE f1

(***************************************************************************)
(* computeFlux                                                             *)
(***************************************************************************)
\* mutant: the interior cell is always taken as the upstream cell
upstreamDof_AlwaysInterior(face, upIdx) == face.interiorIndex

\* mutant: the two sides are exchanged
upstreamDof_Swapped(face, upIdx) ==
    IF upIdx = face.interiorIndex THEN face.exteriorIndex ELSE face.interiorIndex

\* the upstream intensive quantities: interior if upIdx is the interior dof,
\* exterior otherwise
upstreamDof(face, upIdx) ==
    IF upIdx = face.interiorIndex THEN face.interiorIndex ELSE face.exteriorIndex

\* mutant: the multiplier is looked up with the interior cell's global index
upstreamGlobalIndex_Interior(face, upIdx) == globalSpaceIndex(face.interiorIndex)

upstreamGlobalIndex(face, upIdx) ==
    IF upIdx = face.interiorIndex
    THEN globalSpaceIndex(face.interiorIndex)
    ELSE globalSpaceIndex(face.exteriorIndex)

\* mutant: the threshold pressure is not handed to the selector
phasePressureDiff_NoThpres(iq, face, phase) ==
    calculatePhasePressureDiff_(iq, face.interiorIndex, face.exteriorIndex, phase,
                                face.distZg, 0)

phasePressureDiff(iq, face, phase) ==
    calculatePhasePressureDiff_(iq, face.interiorIndex, face.exteriorIndex, phase,
                                face.distZg, face.thpres)

\* mutant: no zero-potential path, and the exterior (derivative-stripped)
\* branch forgets the potential factor
darcyFlux_NoFastPath(iq, face, phase) ==
    LET pd == phasePressureDiff(iq, face, phase)
        up == upstreamDof(face, pd.upIdx)
        transMult == rockCompTransMultiplier(iq, up, upstreamGlobalIndex(face, pd.upIdx))
        geom == (-face.trans) \div face.faceArea
    IN  IF pd.upIdx = face.interiorIndex
        THEN Mul(Mul(Mul(pd.pressureDifference, mobility(iq, up, phase)), transMult),
                 Const(geom))
        ELSE Const(Value(mobility(iq, up, phase)).v * Value(transMult).v * geom)

\* mutant: the interior (derivative-carrying) branch forgets the mobility
darcyFlux_InteriorNoMobility(iq, face, phase) ==
    LET pd == phasePressureDiff(iq, face, phase)
        up == upstreamDof(face, pd.upIdx)
        transMult == rockCompTransMultiplier(iq, up, upstreamGlobalIndex(face, pd.upIdx))
        geom == (-face.trans) \div face.faceArea
    IN  IF pd.pressureDifference.v = 0
        THEN Const(0)
        ELSE IF pd.upIdx = face.interiorIndex
        THEN Mul(Mul(pd.pressureDifference, transMult), Const(geom))
        ELSE Mul(pd.pressureDifference,
                 Const(Value(mobility(iq, up, phase)).v * Value(transMult).v * geom))

\* mutant: the exterior (derivative-stripped) branch forgets the multiplier
darcyFlux_ExteriorNoMult(iq, face, phase) ==
    LET pd == phasePressureDiff(iq, face, phase)
        up == upstreamDof(face, pd.upIdx)
        transMult == rockCompTransMultiplier(iq, up, upstreamGlobalIndex(face, pd.upIdx))
        geom == (-face.trans) \div face.faceArea
    IN  IF pd.pressureDifference.v = 0
        THEN Const(0)
        ELSE IF pd.upIdx = face.interiorIndex
        THEN Mul(Mul(Mul(pd.pressureDifference, mobility(iq, up, phase)), transMult),
                 Const(geom))
        ELSE Mul(pd.pressureDifference,
                 Const(Value(mobility(iq, up, phase)).v * geom))

\* the Darcy flux of a phase
darcyFlux(iq, face, phase) ==
    LET pd == phasePressureDiff(iq, face, phase)
        up == upstreamDof(face, pd.upIdx)
        transMult == rockCompTransMultiplier(iq, up, upstreamGlobalIndex(face, pd.upIdx))
        geom == (-face.trans) \div face.faceArea
    IN  IF pd.pressureDifference.v = 0
        THEN Const(0)
        ELSE IF pd.upIdx = face.interiorIndex
        THEN Mul(Mul(Mul(pd.pressureDifference, mobility(iq, up, phase)), transMult),
                 Const(geom))
        ELSE Mul(pd.pressureDifference,
                 Const(Value(mobility(iq, up, phase)).v * Value(transMult).v * geom))

\* whether the upstream fluid state is read as Evaluation (derivatives kept)
keepUpstreamDerivatives(face, upIdx) == upIdx = face.focusDofIdx

\* the body of the phase loop for an active phase
FluxActivePhase(cfg, fl, iq, face, phase) ==
    LET pd == phasePressureDiff(iq, face, phase)
        up == upstreamDof(face, pd.upIdx)
        pvtRegionIdx == pvtRegionIndex(iq, up)
        keep == keepUpstreamDerivatives(face, pd.upIdx)
        surfaceVolumeFlux == Mul(getInvB_(iq, up, phase, keep), darcyFlux(iq, face, phase))
    IN  evalPhaseFluxes_(cfg, fl, phase, pvtRegionIdx, surfaceVolumeFlux, iq, up, keep)

FluxPhase(cfg, fl, iq, face, phase) ==
    IF ~phaseIsActive(cfg, phase)
    THEN fl
    ELSE FluxActivePhase(cfg, fl, iq, face, phase)

\* the phase loop from phaseIdx up to (not including) endIdx
RECURSIVE FluxPhaseLoop(_, _, _, _, _, _)
FluxPhaseLoop(cfg, fl, iq, face, phaseIdx, endIdx) ==
    IF phaseIdx >= endIdx
    THEN fl
    ELSE FluxPhaseLoop(cfg, FluxPhase(cfg, fl, iq, face, cfg.phaseAt[phaseIdx + 1]),
                       iq, face, phaseIdx + 1, endIdx)

\* the flux a module adds to the slot it owns
moduleFlux(m, iq, face) ==
    Const(modulePos(m) * (iq[face.interiorIndex] - iq[face.exteriorIndex]))

ModuleComputeFlux(cfg, m, fl, iq, face) ==
    IF m \in cfg.modules
    THEN AddTo(fl, contiModuleEqIdx(cfg, m), moduleFlux(m, iq, face))
    ELSE fl

RECURSIVE ComputeFluxChain(_, _, _, _, _)
ComputeFluxChain(cfg, fl, iq, face, i) ==
    IF i > Len(ModuleOrder)
    THEN fl
    ELSE ComputeFluxChain(cfg, ModuleComputeFlux(cfg, ModuleOrder[i], fl, iq, face),
                          iq, face, i + 1)

\* DiffusionModule::addDiffusiveFlux: the diffusive flux of the components,
\* driven by the difference of the two fluid states, added to the slots of
\* the enabled components
diffusiveFlux(iq, face, comp) ==
    Const((1 + canonicalCompIdx(comp)) * (iq[face.interiorIndex] - iq[face.exteriorIndex]))

RECURSIVE AddDiffusiveComps(_, _, _, _, _)
AddDiffusiveComps(cfg, fl, iq, face, comps) ==
    IF comps = {}
    THEN fl
    ELSE LET c == CHOOSE k \in comps : TRUE
         IN  AddDiffusiveComps(cfg,
                 AddTo(fl, compEqIdx(cfg, c), diffusiveFlux(iq, face, c)),
                 iq, face, comps \ {c})

addDiffusiveFlux(cfg, fl, iq, face) ==
    IF cfg.enableDiffusion
    THEN AddDiffusiveComps(cfg, fl, iq, face, {c \in Comps : compEnabled(cfg, c)})
    ELSE fl

\* computeFlux writing into an output vector that holds `prior`
computeFluxInto(prior, cfg, iq, face) ==
    LET phases == FluxPhaseLoop(cfg, ResetVector(prior, cfg), iq, face, 0, numPhases)
        chain == ComputeFluxChain(cfg, phases, iq, face, 1)
    IN  addDiffusiveFlux(cfg, chain, iq, face)

\* computeFlux writing into a fresh output vector
computeFlux(cfg, iq, face) == computeFluxInto(ZeroVector(cfg), cfg, iq, face)

(***************************************************************************)
(* The accessor calls computeFlux makes on the upstream intensive          *)
(* quantities and on the problem, as records [what, phase, dof].           *)
(***************************************************************************)
Lookup(what, phase, dof) == [what |-> what, phase |-> phase, dof |-> dof]

\* the call problem.rockCompTransMultiplier(up, globalIndex)
MultiplierLookup(phase, dof, globalIndex) ==
    [what |-> "rockCompTransMultiplier", phase |-> phase, dof |-> dof,
     globalIndex |-> globalIndex]

\* the calls of evalPhaseFluxes_ on the upstream fluid state
RatioLookups(cfg, phase, up) ==
    (IF phase = oilPhaseIdx /\ enableDissolvedGas(cfg)
     THEN {Lookup("Rs", phase, up)} ELSE {})
    \cup (IF phase = gasPhaseIdx /\ enableVaporizedOil(cfg)
          THEN {Lookup("Rv", phase, up)} ELSE {})
    \cup (IF phase = gasPhaseIdx /\ enableVaporizedWater(cfg)
          THEN {Lookup("Rvw", phase, up)} ELSE {})

\* the calls of one iteration of the phase loop, in the order of the code:
\* the multiplier, the mobility unless the potential is zero, the PVT
\* region, invB and the distribution of the flux
PhaseLookups(cfg, iq, face, phase) ==
    LET pd == phasePressureDiff(iq, face, phase)
        up == upstreamDof(face, pd.upIdx)
    IN  {MultiplierLookup(phase, up, upstreamGlobalIndex(face, pd.upIdx))}
        \cup (IF pd.pressureDifference.v = 0
              THEN {}
              ELSE {Lookup("mobility", phase, up)})
        \cup {Lookup("pvtRegionIndex", phase, up),
              Lookup("invB", phase, up),
              Lookup("evalPhaseFluxes_", phase, up)}
        \cup RatioLookups(cfg, phase, up)

FluxLookups(cfg, iq, face) ==
    UNION {PhaseLookups(cfg, iq, face, phase) : phase \in {p \in Phases : phaseIsActive(cfg, p)}}

(***************************************************************************)
(* computeSource                                                           *)
(***************************************************************************)
\* the equation a slot holds, as a number that does not move when other
\* modules are enabled: components first, then the modules
equationOfSlot(cfg, i) ==
    IF i < conti0EqIdx + numEnabledComps(cfg)
    THEN LET comp == CHOOSE c \in Comps : compEqIdx(cfg, c) = i
         IN  canonicalCompIdx(comp)
    ELSE LET m == CHOOSE n \in cfg.modules : contiModuleEqIdx(cfg, n) = i
         IN  numPhases + modulePos(m)

\* problem.source: the base source term of the dof, one rate per equation
problemSource(cfg, iq, dof) ==
    [i \in EqIdxs(cfg) |-> Const(iq[dof] + equationOfSlot(cfg, i) + 1)]

\* the reaction source the MICP module adds to the slot it owns
moduleSource(m, iq, dof) == Const(modulePos(m) + 2 * iq[dof])

ModuleAddSource(cfg, m, src, iq, dof) ==
    IF m \in cfg.modules
    THEN AddTo(src, contiModuleEqIdx(cfg, m), moduleSource(m, iq, dof))
    ELSE src

\* mutant: the scaling hits the first component equation
scaleEnergySource_FirstSlot(cfg, src) ==
    IF enableEnergy(cfg)
    THEN ScaleAt(src, conti0EqIdx, cfg.scalingFactor)
    ELSE src

\* the energy equation's source is scaled by BlackOilEnergyScalingFactor
scaleEnergySource(cfg, src) ==
    IF enableEnergy(cfg)
    THEN ScaleAt(src, contiModuleEqIdx(cfg, "energy"), cfg.scalingFactor)
    ELSE src

\* mutant: the energy scaling is forgotten
computeSource_Unscaled(cfg, iq, dof) ==
    ModuleAddSource(cfg, "micp", problemSource(cfg, iq, dof), iq, dof)

computeSource(cfg, iq, dof) ==
    LET base == problemSource(cfg, iq, dof)
        micp == ModuleAddSource(cfg, "micp", base, iq, dof)
    IN  scaleEnergySource(cfg, micp)

(***************************************************************************)
(* The calls the three operations make, in the order of the code, as pairs *)
(* <<callee, what>>.  The module calls are made whether or not the module  *)
(* is enabled.                                                             *)
(***************************************************************************)
\* one iteration of the phase loop per phaseIdx
PhaseLoopCalls(cfg) == [i \in 1..numPhases |-> <<cfg.phaseAt[i], "phase">>]

\* SolventModule::what(...) ... MICPModule::what(...)
ModuleCalls(what) == [i \in 1..Len(ModuleOrder) |-> <<ModuleOrder[i], what>>]

StorageCalls(cfg) ==
    PhaseLoopCalls(cfg)
        \o << <<"core", "adaptMassConservationQuantities_">> >>
        \o ModuleCalls("addStorage")

\* mutant: the diffusive flux is added before the module calls
FluxCalls_DiffusionFirst(cfg) ==
    PhaseLoopCalls(cfg)
        \o << <<"diffusion", "addDiffusiveFlux">> >>
        \o ModuleCalls("computeFlux")

FluxCalls(cfg) ==
    PhaseLoopCalls(cfg)
        \o ModuleCalls("computeFlux")
        \o << <<"diffusion", "addDiffusiveFlux">> >>

SourceCalls(cfg) ==
    << <<"problem", "source">>, <<"micp", "addSource">> >>
        \o (IF enableEnergy(cfg) THEN << <<"core", "scaleEnergySource">> >> ELSE << >>)

(***************************************************************************)
(* Configurations and inputs.                                              *)
(***************************************************************************)
\* the numberings of the phases: every order in which the phase loop may
\* visit them
PhaseNumberings ==
    {p \in [1..numPhases -> Phases] : \A i, j \in 1..numPhases : p[i] = p[j] => i = j}

\* the phase loop never asks for the slot of a component that has none
NoDisabledCompAccess(cfg) ==
    /\ (cfg.enableDissolvedGas /\ "oil" \in cfg.active) => compEnabled(cfg, gasCompIdx)
    /\ (cfg.enableVaporizedOil /\ "gas" \in cfg.active) => compEnabled(cfg, oilCompIdx)
    /\ (cfg.enableVaporizedWater /\ "gas" \in cfg.active) => compEnabled(cfg, waterCompIdx)

\* the compacted numbering is used with fewer than three phases only
ValidConfig(cfg) ==
    /\ cfg.active # {}
    /\ (~cfg.threePhase) => cfg.active # Phases
    /\ NoDisabledCompAccess(cfg)

Configs(numberings, moduleSets, diffusion, factors) ==
    {cfg \in [active : SUBSET Phases,
              phaseAt : numberings,
              threePhase : BOOLEAN,
              enableDissolvedGas : BOOLEAN,
              enableVaporizedOil : BOOLEAN,
              enableVaporizedWater : BOOLEAN,
              blackoilConserveSurfaceVolume : BOOLEAN,
              modules : moduleSets,
              enableDiffusion : diffusion,
              scalingFactor : factors] : ValidConfig(cfg)}

NoVector == <<>>

(***************************************************************************)
(* The storage specification: computeStorage applied to every              *)
(* configuration and dof state.                                            *)
(***************************************************************************)
NoCall == [op |-> "none"]

\* the objects of the other classes, before any of their operations
NoResult == [kind |-> "none"]

NoQuantities == [assigned |-> {}]

NoBuffers == [resized |-> {}]

InitStorage ==
    /\ config \in Configs(PhaseNumberings, {{}}, {FALSE}, {1})
    /\ intQuants \in [{0} -> Snapshots]
    /\ args = NoCall
    /\ pc = "ready"
    /\ storage = NoVector
    /\ flux = NoVector
    /\ source = NoVector
    /\ residual = NoVector
    /\ pending = {}
    /\ lookups = {}
    /\ calls = <<>>
    /\ values = NoVector
    /\ result = NoResult
    /\ extQuants = NoQuantities
    /\ buffers = NoBuffers

\* computeStorage(storage, elemCtx, dofIdx, timeIdx), LhsEval being Scalar
\* or Evaluation
ComputeStorage ==
    /\ pc = "ready"
    /\ \E dofIdx \in DOMAIN intQuants, timeIdx \in {0, 1}, lhsEvaluation \in BOOLEAN :
           /\ args' = [op |-> "storage", dofIdx |-> dofIdx, timeIdx |-> timeIdx,
                       lhsEvaluation |-> lhsEvaluation]
           /\ storage' = computeStorageInto(storage, config, intQuants, dofIdx, timeIdx,
                                                 lhsEvaluation)
    /\ calls' = StorageCalls(config)
    /\ pc' = "done"
    /\ UNCHANGED <<config, intQuants, flux, source, residual, pending, lookups,
                 values, result, extQuants, buffers>>

NextStorage == ComputeStorage

SpecStorage == InitStorage /\ [][NextStorage]_vars

StorageDone == pc = "done" /\ args.op = "storage"

(***************************************************************************)
(* C1: the storage reference sum.                                          *)
(***************************************************************************)
\* what the reference lets an active phase add to the slot of comp
RefStorageContribution(cfg, iq, dof, phase, comp) ==
    LET sv == saturation(iq, dof, phase).v * invB(iq, dof, phase).v * porosity(iq, dof).v
    IN  IF phase \notin cfg.active THEN 0
        ELSE (IF comp = solventComponentIndex(phase) THEN sv ELSE 0)
           + (IF phase = "oil" /\ comp = "gasComp" /\ cfg.enableDissolvedGas
              THEN Rs(iq, dof).v * sv ELSE 0)
           + (IF phase = "gas" /\ comp = "oilComp" /\ cfg.enableVaporizedOil
              THEN Rv(iq, dof).v * sv ELSE 0)
           + (IF phase = "gas" /\ comp = "waterComp" /\ cfg.enableVaporizedWater
              THEN Rvw(iq, dof).v * sv ELSE 0)

RefStorageSum(cfg, iq, dof, comp) ==
    RefStorageContribution(cfg, iq, dof, "water", comp)
    + RefStorageContribution(cfg, iq, dof, "oil", comp)
    + RefStorageContribution(cfg, iq, dof, "gas", comp)

phaseIdxOf(cfg, phase) == CHOOSE i \in 1..numPhases : cfg.phaseAt[i] = phase

\* the contributions that survive in the slot of comp: all of them when the
\* phase of comp is active; when it is an inactive phase, only those of the
\* phases the loop visits after it
RefStorageSurviving(cfg, iq, dof, comp) ==
    LET own == phaseOfComp(comp)
        counts(phase) == \/ own \in cfg.active
                         \/ phaseIdxOf(cfg, phase) > phaseIdxOf(cfg, own)
        part(phase) == IF counts(phase)
                       THEN RefStorageContribution(cfg, iq, dof, phase, comp)
                       ELSE 0
    IN  part("water") + part("oil") + part("gas")

C1_Case ==
    /\ StorageDone
    /\ config.blackoilConserveSurfaceVolume
    /\ config.modules = {}

\* C1 as stated: with the modules disabled and in surface-volume mode, every
\* component slot of the computeStorage result equals the reference sum of
\* the contributions of the active phases, and there is no other slot.
C1_ReferenceSum ==
    C1_Case =>
        /\ DOMAIN storage = {compEqIdx(config, c) : c \in {k \in Comps : compEnabled(config, k)}}
        /\ \A c \in Comps : compEnabled(config, c) =>
               storage[compEqIdx(config, c)].v = RefStorageSum(config, intQuants, args.dofIdx, c)

\* C1 amended: every component slot equals the reference sum, except that the
\* slot of an inactive phase (three-phase numbering) is reset to zero when the
\* loop visits that phase, so it holds only the dissolved or vaporized
\* contributions of the phases visited after it.
C1_ReferenceSumAmended ==
    C1_Case =>
        /\ DOMAIN storage = {compEqIdx(config, c) : c \in {k \in Comps : compEnabled(config, k)}}
        /\ \A c \in Comps : compEnabled(config, c) =>
               storage[compEqIdx(config, c)].v
                   = RefStorageSurviving(config, intQuants, args.dofIdx, c)

\* the dissolved gas of the oil phase is overwritten by the trivial equation
\* of the inactive gas phase, visited after the oil phase
C1_Witness ==
    /\ C1_Case
    /\ config.threePhase
    /\ config.active = {"water", "oil"}
    /\ config.enableDissolvedGas
    /\ phaseIdxOf(config, "oil") < phaseIdxOf(config, "gas")
    /\ storage[compEqIdx(config, gasCompIdx)].v = 0
    /\ storage[compEqIdx(config, oilCompIdx)].v > 0
    /\ RefStorageSum(config, intQuants, args.dofIdx, gasCompIdx) > 0

(***************************************************************************)
(* C6: conservation-mode equivalence of the storage.                       *)
(***************************************************************************)
SurfaceVolumeMode(cfg) == [cfg EXCEPT !.blackoilConserveSurfaceVolume = TRUE]

C6_Case ==
    /\ StorageDone
    /\ ~config.blackoilConserveSurfaceVolume
    /\ config.modules = {}

\* C6: with mass conservation enabled (modules disabled) the slot of every
\* enabled component of the computeStorage result equals
\* referenceDensity(phase of the component, pvtRegion) times the slot of the
\* surface-volume-mode result for the same input.
C6_StorageMassEquivalence ==
    C6_Case =>
        LET sv == computeStorage(SurfaceVolumeMode(config), intQuants, args.dofIdx,
                                 args.timeIdx, args.lhsEvaluation)
            region == pvtRegionIndex(intQuants, args.dofIdx)
        IN  /\ DOMAIN storage = DOMAIN sv
            /\ \A c \in Comps : compEnabled(config, c) =>
                   storage[compEqIdx(config, c)].v
                       = referenceDensity(phaseOfComp(c), region) * sv[compEqIdx(config, c)].v

\* a mass-mode result whose gas slot holds free and dissolved gas, scaled by a
\* reference density other than one
C6_Witness ==
    /\ C6_Case
    /\ config.active = Phases
    /\ config.enableDissolvedGas
    /\ referenceDensity("gas", pvtRegionIndex(intQuants, args.dofIdx)) > 1
    /\ storage[compEqIdx(config, gasCompIdx)].v
           = referenceDensity("gas", pvtRegionIndex(intQuants, args.dofIdx))
               * RefStorageSum(config, intQuants, args.dofIdx, gasCompIdx)
    /\ storage[compEqIdx(config, gasCompIdx)].v > 0

(***************************************************************************)
(* The flux specification: computeFlux applied to every configuration,     *)
(* pair of dof states and face.                                            *)
(***************************************************************************)
\* the faces between dof 0 (interior) and dof 1 (exterior): no threshold or
\* the threshold MaxThpres, level or tilted by MaxDepth either way
Faces ==
    [interiorIndex : {0}, exteriorIndex : {1}, focusDofIdx : {0, 1},
     trans : {6}, faceArea : {2},
     thpres : {0, MaxThpres}, distZg : {-MaxDepth, 0, MaxDepth}]

\* the numbering of the fluid system
DefaultNumbering == {<<"water", "oil", "gas">>}

InitFlux ==
    /\ config \in Configs(DefaultNumbering, {{}}, {FALSE}, {1})
    /\ intQuants \in [{0, 1} -> Snapshots]
    /\ args = NoCall
    /\ pc = "ready"
    /\ storage = NoVector
    /\ flux = NoVector
    /\ source = NoVector
    /\ residual = NoVector
    /\ pending = {}
    /\ lookups = {}
    /\ calls = <<>>
    /\ values = NoVector
    /\ result = NoResult
    /\ extQuants = NoQuantities
    /\ buffers = NoBuffers

\* computeFlux(flux, elemCtx, scvfIdx, timeIdx) on an interior face
ComputeFlux ==
    /\ pc = "ready"
    /\ \E face \in Faces :
           /\ face.interiorIndex # face.exteriorIndex
           /\ args' = [op |-> "flux", face |-> face, timeIdx |-> 0]
           /\ flux' = computeFluxInto(flux, config, intQuants, face)
           /\ lookups' = FluxLookups(config, intQuants, face)
    /\ calls' = FluxCalls(config)
    /\ pc' = "done"
    /\ UNCHANGED <<config, intQuants, storage, source, residual, pending,
                 values, result, extQuants, buffers>>

NextFlux == ComputeFlux

SpecFlux == InitFlux /\ [][NextFlux]_vars

FluxDone == pc = "done" /\ args.op = "flux"

CoreFluxDone == FluxDone /\ config.modules = {} /\ ~config.enableDiffusion

ActivePhases == config.active

potentialOf(phase) == phasePressureDiff(intQuants, args.face, phase).pressureDifference.v

\* the dof the upwind selector designates as upstream
upstreamOf(phase) == phasePressureDiff(intQuants, args.face, phase).upIdx

(***************************************************************************)
(* C2: the flux is distributed from the upstream cell of each phase.       *)
(***************************************************************************)
\* the surface-volume flux of a phase, from the quantities of cell up
RefSurfaceVolumeFlux(iq, face, phase, up) ==
    invB(iq, up, phase).v
      * potentialOf(phase) * mobility(iq, up, phase).v
      * rockCompTransMultiplier(iq, up, globalSpaceIndex(up)).v
      * ((-face.trans) \div face.faceArea)

\* what the phase adds to the slot of comp, all quantities taken from up
RefFluxContribution(cfg, iq, face, phase, comp, up) ==
    LET svf == RefSurfaceVolumeFlux(iq, face, phase, up)
        sv == IF phase \notin cfg.active THEN 0
              ELSE (IF comp = solventComponentIndex(phase) THEN svf ELSE 0)
                 + (IF phase = "oil" /\ comp = "gasComp" /\ cfg.enableDissolvedGas
                    THEN Rs(iq, up).v * svf ELSE 0)
                 + (IF phase = "gas" /\ comp = "oilComp" /\ cfg.enableVaporizedOil
                    THEN Rv(iq, up).v * svf ELSE 0)
                 + (IF phase = "gas" /\ comp = "waterComp" /\ cfg.enableVaporizedWater
                    THEN Rvw(iq, up).v * svf ELSE 0)
    IN  IF cfg.blackoilConserveSurfaceVolume
        THEN sv
        ELSE sv * referenceDensity(phaseOfComp(comp), pvtRegionIndex(iq, up))

RefFluxSum(cfg, iq, face, comp) ==
    RefFluxContribution(cfg, iq, face, "water", comp, upstreamOf("water"))
    + RefFluxContribution(cfg, iq, face, "oil", comp, upstreamOf("oil"))
    + RefFluxContribution(cfg, iq, face, "gas", comp, upstreamOf("gas"))

\* C2: every component slot of the computeFlux result is the sum over the
\* active phases of the phase's surface-volume flux (upstream invB times the
\* Darcy flux) distributed by the dissolution and vaporization rules, with
\* invB, Rs, Rv, Rvw, the PVT region and the reference density all read from
\* the upstream cell of that phase; in surface-volume mode with oil and gas
\* active and dissolved gas enabled the gas slot is the gas phase's own flux
\* plus Rs(upstream of oil) times the oil phase's flux.
C2_UpstreamDistribution ==
    CoreFluxDone =>
        /\ \A c \in Comps : compEnabled(config, c) =>
               flux[compEqIdx(config, c)].v = RefFluxSum(config, intQuants, args.face, c)
        /\ ( /\ config.active = {"oil", "gas"}
             /\ config.enableDissolvedGas
             /\ config.blackoilConserveSurfaceVolume ) =>
               flux[compEqIdx(config, gasCompIdx)].v
                   = RefSurfaceVolumeFlux(intQuants, args.face, "gas", upstreamOf("gas"))
                     + Rs(intQuants, upstreamOf("oil")).v
                         * RefSurfaceVolumeFlux(intQuants, args.face, "oil", upstreamOf("oil"))

\* counter-current flow: the oil comes from the interior cell, the gas from
\* the exterior cell, the two cells differ in Rs, and the gas slot holds both
C2_Witness ==
    /\ CoreFluxDone
    /\ config.active = {"oil", "gas"}
    /\ config.enableDissolvedGas
    /\ config.blackoilConserveSurfaceVolume
    /\ potentialOf("oil") # 0
    /\ potentialOf("gas") # 0
    /\ upstreamOf("oil") = args.face.interiorIndex
    /\ upstreamOf("gas") = args.face.exteriorIndex
    /\ Rs(intQuants, 0).v # Rs(intQuants, 1).v
    /\ flux[compEqIdx(config, gasCompIdx)].v
           # RefSurfaceVolumeFlux(intQuants, args.face, "gas", upstreamOf("gas"))
    /\ flux[compEqIdx(config, gasCompIdx)].v # 0

(***************************************************************************)
(* C3: the zero-potential fast path.                                       *)
(***************************************************************************)
FluxPrefix(n) == FluxPhaseLoop(config, ZeroVector(config), intQuants, args.face, 0, n)

\* C3: a phase whose adjusted potential difference is exactly zero adds
\* exactly zero (value and derivatives) to every slot: the flux vector after
\* its loop iteration is the flux vector before it, and the final flux holds
\* the contributions of the phases with a nonzero potential only.
C3_ZeroPotential ==
    CoreFluxDone =>
        /\ \A i \in 1..numPhases :
               ( /\ config.phaseAt[i] \in config.active
                 /\ potentialOf(config.phaseAt[i]) = 0 ) => FluxPrefix(i) = FluxPrefix(i - 1)
        /\ flux = FluxPrefix(numPhases)
        /\ (\A phase \in config.active : potentialOf(phase) = 0) => flux = ZeroVector(config)

\* a phase at rest between two cells whose upstream mobility, multiplier,
\* invB and Rs are all nonzero, next to a phase that flows
C3_Witness ==
    /\ CoreFluxDone
    /\ config.active = Phases
    /\ config.enableDissolvedGas
    /\ potentialOf("oil") = 0
    /\ intQuants[0] # intQuants[1]
    /\ mobility(intQuants, upstreamOf("oil"), "oil").v > 0
    /\ potentialOf("gas") # 0
    /\ flux[compEqIdx(config, oilCompIdx)].v = 0
    /\ flux[compEqIdx(config, gasCompIdx)].v # 0

(***************************************************************************)
(* C4: flux antisymmetry.                                                  *)
(***************************************************************************)
\* the same face seen from the other cell: roles swapped, depth difference
\* negated, transmissibility and threshold pressure unchanged
SwapFace(face) ==
    [face EXCEPT !.interiorIndex = face.exteriorIndex,
                 !.exteriorIndex = face.interiorIndex,
                 !.distZg = -face.distZg]

\* C4: evaluating computeFlux on the face with the interior and exterior
\* roles swapped and the depth difference negated gives, in every equation
\* slot, the negated value of the original evaluation.
C4_Antisymmetry ==
    CoreFluxDone =>
        LET swapped == computeFlux(config, intQuants, SwapFace(args.face))
        IN  /\ DOMAIN swapped = DOMAIN flux
            /\ \A i \in DOMAIN flux : swapped[i].v = -flux[i].v

\* counter-current flow together with a phase at rest, and a nonzero flux
C4_Witness ==
    /\ CoreFluxDone
    /\ config.active = Phases
    /\ potentialOf("water") = 0
    /\ potentialOf("oil") > 0
    /\ potentialOf("gas") < 0
    /\ flux[compEqIdx(config, oilCompIdx)].v # 0
    /\ flux[compEqIdx(config, gasCompIdx)].v # 0
    /\ computeFlux(config, intQuants, SwapFace(args.face))[compEqIdx(config, oilCompIdx)].v
           = -flux[compEqIdx(config, oilCompIdx)].v

(***************************************************************************)
(* C5: derivative locality.                                                *)
(***************************************************************************)
\* the upstream-derived factors of the flux
UpstreamQuantities == {"mobility", "transMult", "invB", "Rs", "Rv", "Rvw"}

\* C5: no slot of the computeFlux result carries a derivative of an
\* upstream-derived factor (mobility, multiplier, invB, Rs, Rv, Rvw) taken
\* from a dof other than the focus dof.
C5_DerivativeLocality ==
    CoreFluxDone =>
        \A i \in DOMAIN flux : \A tag \in flux[i].d :
            tag[1] \in UpstreamQuantities => tag[2] = args.face.focusDofIdx

(***************************************************************************)
(* C7: conservation-mode equivalence of the flux.                          *)
(***************************************************************************)
C7_Case == CoreFluxDone /\ ~config.blackoilConserveSurfaceVolume

SurfaceVolumeFlux == computeFlux(SurfaceVolumeMode(config), intQuants, args.face)

\* the surface-volume-mode contribution of one phase to every slot
SurfaceVolumePhaseFlux(phase) ==
    FluxPhase(SurfaceVolumeMode(config), ZeroVector(config), intQuants, args.face, phase)

\* C7 as stated: in mass mode every component slot of the flux is one factor
\* referenceDensity(phase of the component, pvtRegion), pvtRegion being the
\* region of one of the two cells, times the surface-volume-mode flux.
C7_SingleFactor ==
    C7_Case =>
        \A c \in Comps : compEnabled(config, c) =>
            \E dof \in {args.face.interiorIndex, args.face.exteriorIndex} :
                flux[compEqIdx(config, c)].v
                    = referenceDensity(phaseOfComp(c), pvtRegionIndex(intQuants, dof))
                        * SurfaceVolumeFlux[compEqIdx(config, c)].v

\* C7 amended: in mass mode every component slot of the flux is the sum over
\* the phases of the phase's surface-volume-mode contribution to that slot
\* times referenceDensity(phase of the component, PVT region of the upstream
\* cell of the contributing phase); it is a single factor times the
\* surface-volume-mode flux when the two cells lie in the same PVT region.
C7_FluxMassEquivalence ==
    C7_Case =>
        /\ \A c \in Comps : compEnabled(config, c) =>
               LET part(phase) ==
                       referenceDensity(phaseOfComp(c),
                                        pvtRegionIndex(intQuants, upstreamOf(phase)))
                         * SurfaceVolumePhaseFlux(phase)[compEqIdx(config, c)].v
               IN  flux[compEqIdx(config, c)].v = part("water") + part("oil") + part("gas")
        /\ pvtRegionIndex(intQuants, 0) = pvtRegionIndex(intQuants, 1) =>
               \A c \in Comps : compEnabled(config, c) =>
                   flux[compEqIdx(config, c)].v
                       = referenceDensity(phaseOfComp(c), pvtRegionIndex(intQuants, 0))
                           * SurfaceVolumeFlux[compEqIdx(config, c)].v

\* counter-current flow between two PVT regions: the gas slot holds free gas
\* from one region and dissolved gas from the other
C7_Witness ==
    /\ C7_Case
    /\ config.active = Phases
    /\ config.enableDissolvedGas
    /\ upstreamOf("oil") # upstreamOf("gas")
    /\ potentialOf("oil") # 0
    /\ potentialOf("gas") # 0
    /\ pvtRegionIndex(intQuants, 0) # pvtRegionIndex(intQuants, 1)
    /\ flux[compEqIdx(config, gasCompIdx)].v # 0
    /\ \A dof \in {0, 1} :
           flux[compEqIdx(config, gasCompIdx)].v
               # referenceDensity("gas", pvtRegionIndex(intQuants, dof))
                   * SurfaceVolumeFlux[compEqIdx(config, gasCompIdx)].v

(***************************************************************************)
(* The assembly specification: three cells in a row, a closed domain with  *)
(* no source.  Every interior face is evaluated once from each of its two  *)
(* cells, in any order, and the result is added to the residual of the     *)
(* cell it was evaluated from.                                             *)
(***************************************************************************)
Cells == {0, 1, 2}

Neighbours(i, j) == i - j = 1 \/ j - i = 1

\* the (cell, face) evaluations of one assembly pass
Evaluations == {e \in Cells \X Cells : Neighbours(e[1], e[2])}

\* the face between cells i and j as seen from i: transmissibility and
\* threshold pressure are symmetric, the depth difference changes sign.
\* The face at cell 0 has no threshold pressure, the other one MaxThpres.
AssemblyFace(mesh, i, j) ==
    [interiorIndex |-> i, exteriorIndex |-> j, focusDofIdx |-> i,
     trans |-> 6, faceArea |-> 2,
     thpres |-> IF 0 \in {i, j} THEN 0 ELSE MaxThpres,
     distZg |-> (i - j) * mesh.tilt]

AssemblyConfigs ==
    {cfg \in Configs(DefaultNumbering, {{}}, {FALSE}, {1}) :
        /\ cfg.threePhase
        /\ cfg.active \in {Phases, {oilPhaseIdx, gasPhaseIdx}}
        /\ cfg.enableVaporizedOil = cfg.enableVaporizedWater}

InitAssembly ==
    /\ config \in AssemblyConfigs
    /\ intQuants \in [Cells -> Snapshots]
    /\ args \in [op : {"assemble"}, tilt : {-MaxDepth, 0, MaxDepth}]
    /\ pc = "ready"
    /\ storage = NoVector
    /\ flux = NoVector
    /\ source = NoVector
    /\ residual = [c \in Cells |-> ZeroVector(config)]
    /\ pending = Evaluations
    /\ lookups = {}
    /\ calls = <<>>
    /\ values = NoVector
    /\ result = NoResult
    /\ extQuants = NoQuantities
    /\ buffers = NoBuffers

\* one (cell, face) evaluation: residual[cell] += computeFlux(face seen from cell)
EvalFace ==
    /\ pc = "ready"
    /\ \E e \in pending :
           LET f == computeFlux(config, intQuants, AssemblyFace(args, e[1], e[2]))
           IN  /\ residual' = [residual EXCEPT
                                  ![e[1]] = [k \in EqIdxs(config) |-> Add(@[k], f[k])]]
               /\ pending' = pending \ {e}
               /\ pc' = IF pending \ {e} = {} THEN "done" ELSE "ready"
    /\ UNCHANGED <<config, intQuants, args, storage, flux, source, lookups, calls,
                 values, result, extQuants, buffers>>

NextAssembly == EvalFace

SpecAssembly == InitAssembly /\ [][NextAssembly]_vars

AssemblyDone == pc = "done" /\ args.op = "assemble"

\* the domain-wide total of equation slot k
RECURSIVE ResidualTotal(_, _)
ResidualTotal(k, cells) ==
    IF cells = {}
    THEN 0
    ELSE LET c == CHOOSE x \in cells : TRUE
         IN  residual[c][k].v + ResidualTotal(k, cells \ {c})

\* C8: component conservation.  On the closed domain, once every interior
\* face has been evaluated once from each of its two cells (in whatever
\* order), the sum over all cells of the accumulated computeFlux results is
\* zero in every component slot, so the fluxes move the components between
\* the cells and leave the domain-wide total of each unchanged.
C8_ComponentConservation ==
    AssemblyDone =>
        \A k \in EqIdxs(config) : ResidualTotal(k, Cells) = 0

\* C8 witness: a finished pass in mass mode with dissolved gas and vaporized
\* oil, in which every cell has gained or lost oil and gas
C8_Witness ==
    /\ AssemblyDone
    /\ config.active = Phases
    /\ ~blackoilConserveSurfaceVolume(config)
    /\ enableDissolvedGas(config)
    /\ enableVaporizedOil(config)
    /\ \A c \in Cells :
           /\ residual[c][compEqIdx(config, oilCompIdx)].v # 0
           /\ residual[c][compEqIdx(config, gasCompIdx)].v # 0

(***************************************************************************)
(* The module specification: computeStorage, computeFlux and computeSource *)
(* with up to MaxModules extension modules enabled, with and without       *)
(* diffusion.                                                              *)
(***************************************************************************)
ModuleSets == {s \in SUBSET Modules : Cardinality(s) <= MaxModules}

ModuleConfigs ==
    {cfg \in Configs(DefaultNumbering, ModuleSets, BOOLEAN, {MaxScalingFactor}) :
        /\ cfg.active \in {Phases, {waterPhaseIdx, oilPhaseIdx}}
        /\ cfg.enableDissolvedGas = cfg.enableVaporizedOil
        /\ cfg.enableVaporizedOil = cfg.enableVaporizedWater}

InitModules ==
    /\ config \in ModuleConfigs
    /\ intQuants \in {iq \in [{0, 1} -> {1, NumSnapshots}] : iq[0] # iq[1]}
    /\ args = NoCall
    /\ pc = "ready"
    /\ storage = NoVector
    /\ flux = NoVector
    /\ source = NoVector
    /\ residual = NoVector
    /\ pending = {}
    /\ lookups = {}
    /\ calls = <<>>
    /\ values = NoVector
    /\ result = NoResult
    /\ extQuants = NoQuantities
    /\ buffers = NoBuffers

\* computeSource(source, elemCtx, dofIdx, timeIdx)
ComputeSource ==
    /\ pc = "ready"
    /\ \E dofIdx \in DOMAIN intQuants :
           /\ args' = [op |-> "source", dofIdx |-> dofIdx, timeIdx |-> 0]
           /\ source' = computeSource(config, intQuants, dofIdx)
    /\ calls' = SourceCalls(config)
    /\ pc' = "done"
    /\ UNCHANGED <<config, intQuants, storage, flux, residual, pending, lookups,
                 values, result, extQuants, buffers>>

NextModules == ComputeStorage \/ ComputeFlux \/ ComputeSource

SpecModules == InitModules /\ [][NextModules]_vars

SourceDone == pc = "done" /\ args.op = "source"

\* the result of the call that was made
CallResult ==
    IF args.op = "storage" THEN storage
    ELSE IF args.op = "flux" THEN flux
    ELSE source

\* the same call under another configuration
CallUnder(cfg) ==
    IF args.op = "storage"
    THEN computeStorage(cfg, intQuants, args.dofIdx, args.timeIdx, args.lhsEvaluation)
    ELSE IF args.op = "flux"
    THEN computeFlux(cfg, intQuants, args.face)
    ELSE computeSource(cfg, intQuants, args.dofIdx)

WithoutModule(cfg, m) == [cfg EXCEPT !.modules = @ \ {m}]

\* where the equation of slot i of the run without m sits in the run with m:
\* a component keeps its slot, a module's slot may move up by one
SlotWithModule(cfg, m, i) ==
    IF i < conti0EqIdx + numEnabledComps(cfg)
    THEN i
    ELSE LET n == CHOOSE x \in cfg.modules \ {m} :
                      contiModuleEqIdx(WithoutModule(cfg, m), x) = i
         IN  contiModuleEqIdx(cfg, n)

\* C9: module additivity.  For identical inputs, the run with an extension
\* module of the chain enabled has one slot more than the run without it,
\* the slot that module owns, and every equation present without the module
\* (the component equations in either conservation mode and the equations
\* of the other enabled modules) has the same value and derivatives in both
\* runs of computeStorage, computeFlux and computeSource; the diffusion
\* switch is the same in both runs.
C9_ModuleAdditivity ==
    (pc = "done" /\ args.op \in {"storage", "flux", "source"}) =>
        \A m \in config.modules :
            LET without == CallUnder(WithoutModule(config, m))
            IN  /\ DOMAIN CallResult = DOMAIN without \cup {numEq(config) - 1}
                /\ \A i \in DOMAIN without :
                       /\ SlotWithModule(config, m, i) # contiModuleEqIdx(config, m)
                       /\ CallResult[SlotWithModule(config, m, i)] = without[i]

\* C9 witness: a mass-mode flux with solvent and polymer enabled in which
\* the component slots and both module slots are nonzero
C9_Witness ==
    /\ pc = "done"
    /\ args.op = "flux"
    /\ config.modules = {"solvent", "polymer"}
    /\ ~blackoilConserveSurfaceVolume(config)
    /\ config.active = Phases
    /\ \A i \in EqIdxs(config) : flux[i].v # 0

\* the reference source of slot i: base plus module contribution, the energy
\* slot of that sum times the scaling factor
RefSource(cfg, iq, dof, i) ==
    LET base == problemSource(cfg, iq, dof)[i].v
        added == IF "micp" \in cfg.modules /\ i = contiModuleEqIdx(cfg, "micp")
                 THEN moduleSource("micp", iq, dof).v
                 ELSE 0
        factor == IF "energy" \in cfg.modules /\ i = contiModuleEqIdx(cfg, "energy")
                  THEN cfg.scalingFactor
                  ELSE 1
    IN  (base + added) * factor

\* C10: computeSource.  Every slot of the result is the base source of the
\* problem callback plus the module source contribution to that slot; with
\* energy enabled the energy slot, and no other, is that sum multiplied once
\* by the scaling factor; with energy disabled no slot is scaled.
C10_SourceScaling ==
    SourceDone =>
        /\ DOMAIN source = EqIdxs(config)
        /\ \A i \in EqIdxs(config) :
               source[i].v = RefSource(config, intQuants, args.dofIdx, i)

\* C10 witness: a source with energy and MICP enabled and a scaling factor
\* above one, so that the energy slot differs from its unscaled sum
C10_Witness ==
    /\ SourceDone
    /\ config.modules = {"energy", "micp"}
    /\ config.scalingFactor > 1
    /\ source[contiModuleEqIdx(config, "energy")].v
           # problemSource(config, intQuants, args.dofIdx)[contiModuleEqIdx(config, "energy")].v
    /\ source[contiModuleEqIdx(config, "micp")].v
           # problemSource(config, intQuants, args.dofIdx)[contiModuleEqIdx(config, "micp")].v

(***************************************************************************)
(* The reuse specification: computeStorage and computeFlux called twice in *)
(* a row on output vectors that hold what an earlier use left in them.     *)
(***************************************************************************)
\* what an output vector holds before its first use here
StaleVector(cfg) == [i \in EqIdxs(cfg) |-> Variable(7 + i, i)]

ReuseConfigs ==
    {cfg \in Configs(DefaultNumbering, {{"polymer"}}, {FALSE}, {1}) :
        /\ cfg.threePhase
        /\ cfg.active \in {Phases, {oilPhaseIdx}}
        /\ cfg.enableDissolvedGas = cfg.enableVaporizedOil
        /\ cfg.enableVaporizedOil = cfg.enableVaporizedWater}

InitReuse ==
    /\ config \in ReuseConfigs
    /\ intQuants \in {iq \in [{0, 1} -> Snapshots] : iq[0] # iq[1]}
    /\ args = NoCall
    /\ pc = "ready"
    /\ storage = StaleVector(config)
    /\ flux = StaleVector(config)
    /\ source = NoVector
    /\ residual = NoVector
    /\ pending = {"second call"}
    /\ lookups = {}
    /\ calls = <<>>
    /\ values = NoVector
    /\ result = NoResult
    /\ extQuants = NoQuantities
    /\ buffers = NoBuffers

\* the caller goes on to its next call, with the same output vectors
NextCall ==
    /\ pc = "done"
    /\ pending # {}
    /\ pc' = "ready"
    /\ pending' = {}
    /\ UNCHANGED <<config, intQuants, args, storage, flux, source, residual, lookups, calls,
                 values, result, extQuants, buffers>>

NextReuse == ComputeStorage \/ ComputeFlux \/ NextCall

SpecReuse == InitReuse /\ [][NextReuse]_vars

\* the result of the last call is what the call gives on a fresh vector
ResultOfLastCall ==
    /\ (pc = "done" /\ args.op = "storage") =>
           storage = computeStorage(config, intQuants, args.dofIdx, args.timeIdx,
                                    args.lhsEvaluation)
    /\ (pc = "done" /\ args.op = "flux") =>
           flux = computeFlux(config, intQuants, args.face)

\* a call leaves the snapshots, the configuration and the other output
\* vector alone, and a call with the arguments of the call before it gives
\* the result of the call before it
CallFrame ==
    /\ intQuants' = intQuants
    /\ config' = config
    /\ source' = source
    /\ residual' = residual
    /\ storage' # storage => (args'.op = "storage" /\ flux' = flux)
    /\ flux' # flux => (args'.op = "flux" /\ storage' = storage)
    /\ (pc = "ready" /\ pc' = "done" /\ args' = args) =>
           (storage' = storage /\ flux' = flux)

\* C11: computeStorage and computeFlux are pure.  Whatever the output
\* vector held before the call, the result is the one the call gives on a
\* zeroed vector; a call repeated with equal inputs gives an equal result;
\* and no call changes the fluid-state snapshots, the configuration or any
\* vector other than its own output.
C11_Purity == ([]ResultOfLastCall) /\ [][CallFrame]_vars

\* C11 witness: a second call has overwritten an output vector that held the
\* nonzero result of the first call with a different nonzero result
C11_Witness ==
    /\ pc = "done"
    /\ pending = {}
    /\ args.op = "storage"
    /\ args.timeIdx = 1
    /\ storage # StaleVector(config)
    /\ \E i \in EqIdxs(config) : storage[i].v # 0
    /\ \E i \in EqIdxs(config) : flux[i].v # 0 /\ flux[i] # StaleVector(config)[i]

(***************************************************************************)
(* The concurrent specification: one computeStorage, one computeFlux and   *)
(* one computeSource invocation run at the same time, interleaved          *)
(* statement by statement.  storage, flux and source are the private       *)
(* output vectors of the three; the snapshots were published before.       *)
(***************************************************************************)
Invocations == {"storage", "flux", "source"}

\* the number of statements of an invocation
LastStep(inv) ==
    IF inv = "storage" THEN numPhases + 3
    ELSE IF inv = "flux" THEN numPhases + 3
    ELSE 3

\* mutant: the flux invocation works on the vector of the storage invocation
OutputVector_Shared(inv) == IF inv = "flux" THEN "storage" ELSE inv

\* the output vector an invocation was handed: its own
OutputVector(inv) == inv

\* mutant: the module chain runs before the mass conversion
StorageStatement_ConvertLast(cfg, iq, call, k, vec) ==
    IF k = 0 THEN ResetVector(vec, cfg)
    ELSE IF k <= numPhases
    THEN StoragePhase(cfg, vec, iq, call.dofIdx, cfg.phaseAt[k], call.timeIdx,
                      call.lhsEvaluation)
    ELSE IF k = numPhases + 1
    THEN AddStorageChain(cfg, vec, iq, call.dofIdx, 1)
    ELSE adaptMassConservationQuantities_(cfg, vec, pvtRegionIndex(iq, call.dofIdx))

\* statement k of computeStorage: reset, the phase loop, the mass
\* conversion, the module chain
StorageStatement(cfg, iq, call, k, vec) ==
    IF k = 0 THEN ResetVector(vec, cfg)
    ELSE IF k <= numPhases
    THEN StoragePhase(cfg, vec, iq, call.dofIdx, cfg.phaseAt[k], call.timeIdx,
                      call.lhsEvaluation)
    ELSE IF k = numPhases + 1
    THEN adaptMassConservationQuantities_(cfg, vec, pvtRegionIndex(iq, call.dofIdx))
    ELSE AddStorageChain(cfg, vec, iq, call.dofIdx, 1)

\* statement k of computeFlux: reset, the phase loop, the module chain, the
\* diffusive flux
FluxStatement(cfg, iq, call, k, vec) ==
    IF k = 0 THEN ResetVector(vec, cfg)
    ELSE IF k <= numPhases
    THEN FluxPhase(cfg, vec, iq, call.face, cfg.phaseAt[k])
    ELSE IF k = numPhases + 1
    THEN ComputeFluxChain(cfg, vec, iq, call.face, 1)
    ELSE addDiffusiveFlux(cfg, vec, iq, call.face)

\* statement k of computeSource: the problem's source, the MICP source, the
\* energy scaling
SourceStatement(cfg, iq, call, k, vec) ==
    IF k = 0 THEN problemSource(cfg, iq, call.dofIdx)
    ELSE IF k = 1 THEN ModuleAddSource(cfg, "micp", vec, iq, call.dofIdx)
    ELSE scaleEnergySource(cfg, vec)

Statement(inv, cfg, iq, call, k, vec) ==
    IF inv = "storage" THEN StorageStatement(cfg, iq, call, k, vec)
    ELSE IF inv = "flux" THEN FluxStatement(cfg, iq, call, k, vec)
    ELSE SourceStatement(cfg, iq, call, k, vec)

OutputVectors == [storage |-> storage, flux |-> flux, source |-> source]

ConcurrentConfigs ==
    {cfg \in Configs(DefaultNumbering, {{"energy", "micp"}}, {TRUE}, {MaxScalingFactor}) :
        /\ cfg.threePhase
        /\ cfg.active \in {Phases, {oilPhaseIdx, gasPhaseIdx}}
        /\ cfg.enableDissolvedGas = cfg.enableVaporizedOil
        /\ cfg.enableVaporizedOil = cfg.enableVaporizedWater}

\* the three calls: storage of dof 0, the flux over the face seen from dof
\* 0, the source of dof 1
ConcurrentCalls ==
    [op : {"concurrent"},
     storage : [dofIdx : {0}, timeIdx : {0}, lhsEvaluation : {TRUE}],
     flux : [face : {f \in Faces : f.thpres = 0 /\ f.focusDofIdx = 0}],
     source : [dofIdx : {1}]]

InitConcurrent ==
    /\ config \in ConcurrentConfigs
    /\ intQuants \in {iq \in [{0, 1} -> Snapshots] : iq[0] # iq[1]}
    /\ args \in ConcurrentCalls
    /\ pc = [inv \in Invocations |-> 0]
    /\ storage = StaleVector(config)
    /\ flux = StaleVector(config)
    /\ source = StaleVector(config)
    /\ residual = NoVector
    /\ pending = {}
    /\ lookups = {}
    /\ calls = <<>>
    /\ values = NoVector
    /\ result = NoResult
    /\ extQuants = NoQuantities
    /\ buffers = NoBuffers

\* the invocation executes its next statement on its output vector
Step(inv) ==
    /\ pc[inv] < LastStep(inv)
    /\ LET target == OutputVector(inv)
           new == Statement(inv, config, intQuants, args[inv], pc[inv],
                            OutputVectors[target])
       IN  /\ storage' = IF target = "storage" THEN new ELSE storage
           /\ flux' = IF target = "flux" THEN new ELSE flux
           /\ source' = IF target = "source" THEN new ELSE source
    /\ pc' = [pc EXCEPT ![inv] = @ + 1]
    /\ UNCHANGED <<config, intQuants, args, residual, pending, lookups, calls,
                 values, result, extQuants, buffers>>

StepStorage == Step("storage")

StepFlux == Step("flux")

StepSource == Step("source")

NextConcurrent == StepStorage \/ StepFlux \/ StepSource

SpecConcurrent == InitConcurrent /\ [][NextConcurrent]_vars

Finished(inv) == args.op = "concurrent" /\ pc[inv] = LastStep(inv)

\* every finished invocation holds the result of running alone
SameAsAlone ==
    /\ Finished("storage") =>
           storage = computeStorage(config, intQuants, args.storage.dofIdx,
                                    args.storage.timeIdx, args.storage.lhsEvaluation)
    /\ Finished("flux") => flux = computeFlux(config, intQuants, args.flux.face)
    /\ Finished("source") => source = computeSource(config, intQuants, args.source.dofIdx)

\* a statement writes the output vector of the invocation that executes it
\* and nothing else
PrivateWrites ==
    /\ intQuants' = intQuants
    /\ config' = config
    /\ storage' # storage => (pc'.storage # pc.storage /\ flux' = flux /\ source' = source)
    /\ flux' # flux => (pc'.flux # pc.flux /\ storage' = storage /\ source' = source)
    /\ source' # source => (pc'.source # pc.source /\ storage' = storage /\ flux' = flux)

\* C12: concurrent assembly.  Under every interleaving of the statements of
\* a computeStorage, a computeFlux and a computeSource invocation for
\* different dofs and faces, each invocation ends with the output it gives
\* when run alone, and every statement writes only the output vector of its
\* own invocation; the snapshots are never written.
C12_ConcurrentAssembly == ([]SameAsAlone) /\ [][PrivateWrites]_vars

\* C12 witness: the three invocations have finished, each with a nonzero
\* result, and the three results differ
C12_Witness ==
    /\ \A inv \in Invocations : Finished(inv)
    /\ storage # flux
    /\ flux # source
    /\ storage # source
    /\ \A i \in EqIdxs(config) : flux[i].v # 0 /\ source[i].v # 0
    /\ \E i \in EqIdxs(config) : storage[i].v # 0

(***************************************************************************)
(* C13: upstream selection.                                                *)
(***************************************************************************)
\* the interior pressure exceeds the exterior pressure in every active
\* phase, with no gravity and no threshold pressure
InteriorPressureHigher ==
    /\ args.face.distZg = 0
    /\ args.face.thpres = 0
    /\ \A p \in ActivePhases :
           pressure(intQuants, args.face.interiorIndex, p).v
               > pressure(intQuants, args.face.exteriorIndex, p).v

\* the dofs whose quantities computeFlux read for a phase
DofsReadFor(phase) == {l.dof : l \in {k \in lookups : k.phase = phase}}

\* C13: for every active phase computeFlux reads the upstream quantities
\* from the interior dof if the final (gravity- and threshold-adjusted)
\* signed potential is positive and from the exterior dof otherwise; with no
\* gravity and no threshold pressure and the interior pressure above the
\* exterior pressure in every active phase, the interior dof is upstream for
\* every active phase.
C13_UpstreamSelection ==
    FluxDone =>
        /\ \A p \in ActivePhases :
               DofsReadFor(p) = {IF potentialOf(p) > 0
                                 THEN args.face.interiorIndex
                                 ELSE args.face.exteriorIndex}
        /\ InteriorPressureHigher =>
               \A p \in ActivePhases : DofsReadFor(p) = {args.face.interiorIndex}

\* C13 witness: water and oil active with dissolved gas, the interior
\* pressure higher in both phases, no gravity, no threshold: both phases
\* read the interior dof, and the gas slot holds the Rs multiple of the oil
\* flux
C13_Witness ==
    /\ FluxDone
    /\ config.active = {waterPhaseIdx, oilPhaseIdx}
    /\ enableDissolvedGas(config)
    /\ InteriorPressureHigher
    /\ \A p \in ActivePhases : DofsReadFor(p) = {args.face.interiorIndex}
    /\ flux[compEqIdx(config, gasCompIdx)].v # 0

(***************************************************************************)
(* C14: the threshold-pressure clamp.                                      *)
(***************************************************************************)
\* the gravity-corrected potential difference of a phase over the face of
\* the call, before the clamp
GravityCorrected(phase) ==
    LET in == args.face.interiorIndex
        ex == args.face.exteriorIndex
        raw == pressure(intQuants, in, phase).v - pressure(intQuants, ex, phase).v
        up == IF raw > 0 THEN in ELSE ex
    IN  raw - args.face.distZg * density(intQuants, up, phase).v

Sign(x) == IF x > 0 THEN 1 ELSE IF x < 0 THEN -1 ELSE 0

\* C14: with d the gravity-corrected potential difference of an active
\* phase and t the threshold pressure of the face, the driving potential
\* computeFlux works with is 0 when |d| < t and otherwise has the sign of d
\* and the magnitude |d| - t; it never has the opposite sign of d and never
\* a larger magnitude; and when |d| < t in every active phase the flux is
\* zero in every slot.
C14_ThresholdClamp ==
    CoreFluxDone =>
        LET t == args.face.thpres
        IN  /\ \A p \in ActivePhases :
                   LET d == GravityCorrected(p)
                       e == potentialOf(p)
                   IN  /\ Abs(d) < t => e = 0
                       /\ Abs(d) >= t => (Abs(e) = Abs(d) - t /\ (e # 0 => Sign(e) = Sign(d)))
                       /\ e * d >= 0
                       /\ Abs(e) <= Abs(d)
            /\ (\A p \in ActivePhases : Abs(GravityCorrected(p)) < t) =>
                   \A i \in EqIdxs(config) : flux[i].v = 0

\* C14 witness: a face with a threshold where one phase is held back
\* (0 < |d| < t), one flows with reduced potential (|d| > t) and one sits
\* exactly on the threshold
C14_Witness ==
    /\ CoreFluxDone
    /\ args.face.thpres > 0
    /\ config.active = Phases
    /\ \E p \in ActivePhases :
           /\ GravityCorrected(p) # 0
           /\ Abs(GravityCorrected(p)) < args.face.thpres
           /\ potentialOf(p) = 0
    /\ \E p \in ActivePhases :
           /\ Abs(GravityCorrected(p)) > args.face.thpres
           /\ Abs(potentialOf(p)) = Abs(GravityCorrected(p)) - args.face.thpres
           /\ \E i \in EqIdxs(config) : flux[i].v # 0

(***************************************************************************)
(* C15: the zero-flow short circuit.                                       *)
(***************************************************************************)
\* C15: for an active phase whose potential difference is exactly zero
\* computeFlux makes no mobility lookup, no transmissibility-multiplier
\* lookup, no invB lookup and no flux distribution: it makes no accessor
\* call for that phase at all.
C15_ZeroFlowShortCircuit ==
    FluxDone =>
        \A p \in ActivePhases :
            potentialOf(p) = 0 => {l \in lookups : l.phase = p} = {}

(***************************************************************************)
(* C16: derivative retention.                                              *)
(***************************************************************************)
\* C16: whenever the upstream dof of a flowing active phase is the focus
\* dof, interior or exterior, the phase's own component slot carries the
\* derivatives of the upstream mobility, of the transmissibility multiplier
\* and of invB with respect to the focus dof: the derivatives of mobility
\* and multiplier are kept exactly when those of invB are.
C16_DerivativeRetention ==
    CoreFluxDone =>
        \A p \in ActivePhases :
            (potentialOf(p) # 0 /\ upstreamOf(p) = args.face.focusDofIdx) =>
                {<<"mobility", args.face.focusDofIdx>>,
                 <<"transMult", args.face.focusDofIdx>>,
                 <<"invB", args.face.focusDofIdx>>}
                    \subseteq flux[compEqIdx(config, solventComponentIndex(p))].d

(***************************************************************************)
(* C17: the value of the Darcy flux.                                       *)
(***************************************************************************)
\* potentialDifference * upstreamMobility * transMultiplier
\*     * (-transmissibility / faceArea), from the dof the selector designates
RefDarcyFlux(phase) ==
    LET up == upstreamOf(phase)
    IN  potentialOf(phase)
            * mobility(intQuants, up, phase).v
            * rockCompTransMultiplier(intQuants, up, globalSpaceIndex(up)).v
            * ((-args.face.trans) \div args.face.faceArea)

\* C17: for every active phase with a nonzero potential difference the
\* value of darcyFlux is potentialDifference * upstreamMobility *
\* transMultiplier * (-transmissibility / faceArea), in the branch that keeps
\* the derivatives (upstream interior) and in the branch that strips them
\* (upstream exterior) alike; with a single active phase in surface-volume
\* mode the phase's slot of the flux is invB of the upstream dof times it.
C17_DarcyFluxValue ==
    CoreFluxDone =>
        /\ \A p \in ActivePhases :
               potentialOf(p) # 0 =>
                   darcyFlux(intQuants, args.face, p).v = RefDarcyFlux(p)
        /\ \A p \in ActivePhases :
               (ActivePhases = {p} /\ blackoilConserveSurfaceVolume(config)
                    /\ potentialOf(p) # 0) =>
                   flux[compEqIdx(config, solventComponentIndex(p))].v
                       = invB(intQuants, upstreamOf(p), p).v * RefDarcyFlux(p)

\* C17 witness: one phase flows out of the interior dof (derivatives kept)
\* and another into it (derivatives stripped), both with a nonzero Darcy flux
C17_Witness ==
    /\ CoreFluxDone
    /\ \E p, q \in ActivePhases :
           /\ potentialOf(p) > 0
           /\ potentialOf(q) < 0
           /\ darcyFlux(intQuants, args.face, p).v # 0
           /\ darcyFlux(intQuants, args.face, q).v # 0
           /\ darcyFlux(intQuants, args.face, p).d # {}
           /\ rockCompTransMultiplier(intQuants, upstreamOf(q),
                                      globalSpaceIndex(upstreamOf(q))).v # 1

(***************************************************************************)
(* C18: where computeStorage converts to masses.                           *)
(***************************************************************************)
\* the storage invocation has executed the mass conversion
ConversionApplied ==
    /\ args.op = "concurrent"
    /\ ~blackoilConserveSurfaceVolume(config)
    /\ pc.storage > numPhases + 1

\* the storage invocation has executed the module chain
ModulesAdded == args.op = "concurrent" /\ pc.storage = LastStep("storage")

\* the result of the phase loop alone, in surface volumes
SurfaceVolumeStorage ==
    StoragePhaseLoop(SurfaceVolumeMode(config), ZeroVector(config), intQuants,
                     args.storage.dofIdx, args.storage.timeIdx,
                     args.storage.lhsEvaluation, 0)

\* every enabled component slot is the surface volume times the reference
\* density of the component's phase, once
ConvertedOnce ==
    \A c \in {k \in Comps : compEnabled(config, k)} :
        storage[compEqIdx(config, c)].v
            = SurfaceVolumeStorage[compEqIdx(config, c)].v
                * referenceDensity(phaseOfComp(c),
                                   pvtRegionIndex(intQuants, args.storage.dofIdx))

\* C18 as stated: when masses are conserved, the reference-density
\* multiplication of computeStorage is applied after all module addStorage
\* contributions have been added: whenever the conversion has been applied,
\* the contribution of every enabled module is in its slot.
C18_ConversionAfterModules ==
    ConversionApplied =>
        \A m \in config.modules :
            storage[contiModuleEqIdx(config, m)]
                = moduleStorage(m, intQuants, args.storage.dofIdx)

\* C18, amended: when masses are conserved, the reference-density
\* multiplication is applied exactly once per enabled component slot, after
\* the phase loop and before the module addStorage calls: right after it
\* every module slot is still zero, and the modules then add their
\* contributions to their own slots, unconverted, leaving the converted
\* component slots as they are.
C18_ConversionBeforeModules ==
    ConversionApplied =>
        /\ ConvertedOnce
        /\ \A m \in config.modules :
               storage[contiModuleEqIdx(config, m)]
                   = IF ModulesAdded
                     THEN moduleStorage(m, intQuants, args.storage.dofIdx)
                     ELSE Const(0)

\* C18 witness: the conversion has been applied to nonzero component slots
\* whose reference densities are not one, and the modules have not run yet
C18_Witness ==
    /\ ConversionApplied
    /\ ~ModulesAdded
    /\ config.active = Phases
    /\ \A c \in Comps :
           /\ storage[compEqIdx(config, c)].v # 0
           /\ storage[compEqIdx(config, c)].v # SurfaceVolumeStorage[compEqIdx(config, c)].v
    /\ \A m \in config.modules :
           moduleStorage(m, intQuants, args.storage.dofIdx).v # 0

(***************************************************************************)
(* C19: the storage slot of an inactive phase.                             *)
(***************************************************************************)
\* C19: under the three-phase numbering, with the modules disabled, the
\* slot of every inactive phase has the value zero after computeStorage, at
\* every time level, for every combination of active phases and of the
\* dissolved-gas, vaporized-oil and vaporized-water flags, in whatever order
\* the phases are visited.
C19_InactiveStorageSlot ==
    (StorageDone /\ config.threePhase /\ config.modules = {}) =>
        \A p \in Phases \ config.active :
            storage[compEqIdx(config, solventComponentIndex(p))].v = 0

(***************************************************************************)
(* C20: the flux slot of an inactive phase.                                *)
(***************************************************************************)
\* C20: with the modules disabled, the slot of an inactive phase, where it
\* exists, has the value zero after computeFlux: the inactive phase adds
\* nothing, and no Rs, Rv or Rvw term of an active phase puts a nonzero
\* value into it.
C20_InactiveFluxSlot ==
    CoreFluxDone =>
        \A p \in Phases \ config.active :
            compEnabled(config, solventComponentIndex(p)) =>
                flux[compEqIdx(config, solventComponentIndex(p))].v = 0

(***************************************************************************)
(* C21: the order of the module calls.                                     *)
(***************************************************************************)
\* the callees of the calls of one kind, in call order
Callees(what) ==
    LET made == SelectSeq(calls, LAMBDA c : c[2] = what)
    IN  [i \in 1..Len(made) |-> made[i][1]]

\* the positions in calls of the calls of one kind
Positions(what) == {i \in 1..Len(calls) : calls[i][2] = what}

\* C21: computeStorage and computeFlux each call every module exactly once,
\* whether or not it is enabled, in the order solvent, extbo, polymer,
\* energy, foam, brine, MICP; in computeFlux every module call comes after
\* every iteration of the phase loop, and the diffusive flux is added last.
C21_ModuleCallOrder ==
    /\ (pc = "done" /\ args.op = "storage") =>
           Callees("addStorage")
               = <<"solvent", "extbo", "polymer", "energy", "foam", "brine", "micp">>
    /\ (pc = "done" /\ args.op = "flux") =>
           /\ Callees("computeFlux")
                  = <<"solvent", "extbo", "polymer", "energy", "foam", "brine", "micp">>
           /\ \A i \in Positions("phase"), j \in Positions("computeFlux") : i < j
           /\ Positions("addDiffusiveFlux") = {Len(calls)}

\* C21 witness: a flux with a single module enabled and no diffusion has
\* made the three phase iterations, all seven module calls and the diffusion
\* call; the enabled module's slot is nonzero
C21_Witness ==
    /\ pc = "done"
    /\ args.op = "flux"
    /\ config.modules = {"foam"}
    /\ ~config.enableDiffusion
    /\ Len(calls) = numPhases + Len(ModuleOrder) + 1
    /\ flux[contiModuleEqIdx(config, "foam")].v # 0

(***************************************************************************)
(* C22: the order of the module calls does not matter.                     *)
(***************************************************************************)
\* the orders in which the modules of a set can be invoked
Orders(S) ==
    {o \in [1..Cardinality(S) -> S] : \A i, j \in 1..Cardinality(S) : o[i] = o[j] => i = j}

\* the addStorage calls of the modules of order, from its i-th on
RECURSIVE AddStorageInOrder(_, _, _, _, _, _)
AddStorageInOrder(cfg, vec, iq, dof, order, i) ==
    IF i > Len(order)
    THEN vec
    ELSE AddStorageInOrder(cfg, ModuleAddStorage(cfg, order[i], vec, iq, dof),
                           iq, dof, order, i + 1)

\* the computeFlux calls of the modules of order, from its i-th on
RECURSIVE ComputeFluxInOrder(_, _, _, _, _, _)
ComputeFluxInOrder(cfg, fl, iq, face, order, i) ==
    IF i > Len(order)
    THEN fl
    ELSE ComputeFluxInOrder(cfg, ModuleComputeFlux(cfg, order[i], fl, iq, face),
                            iq, face, order, i + 1)

\* the output vector when the module calls begin
StorageBeforeModules ==
    adaptMassConservationQuantities_(config,
        StoragePhaseLoop(config, ZeroVector(config), intQuants, args.dofIdx,
                         args.timeIdx, args.lhsEvaluation, 0),
        pvtRegionIndex(intQuants, args.dofIdx))

FluxBeforeModules ==
    FluxPhaseLoop(config, ZeroVector(config), intQuants, args.face, 0, numPhases)

\* C22: with modules that only add to the output vector, the result of
\* computeStorage, and of computeFlux, is the one obtained by invoking the
\* enabled modules in any order whatever.
C22_ModuleOrderIndependence ==
    /\ (pc = "done" /\ args.op = "storage") =>
           \A order \in Orders(config.modules) :
               storage = AddStorageInOrder(config, StorageBeforeModules, intQuants,
                                           args.dofIdx, order, 1)
    /\ (pc = "done" /\ args.op = "flux") =>
           \A order \in Orders(config.modules) :
               flux = addDiffusiveFlux(config,
                          ComputeFluxInOrder(config, FluxBeforeModules, intQuants,
                                             args.face, order, 1),
                          intQuants, args.face)

\* C22 witness: a mass-mode storage with brine and MICP enabled, both
\* module slots nonzero, so that the two orders of the two calls are compared
C22_Witness ==
    /\ pc = "done"
    /\ args.op = "storage"
    /\ config.modules = {"brine", "micp"}
    /\ ~blackoilConserveSurfaceVolume(config)
    /\ Cardinality(Orders(config.modules)) > 1
    /\ storage[contiModuleEqIdx(config, "brine")].v # 0
    /\ storage[contiModuleEqIdx(config, "micp")].v # 0
    /\ storage[contiModuleEqIdx(config, "brine")] # storage[contiModuleEqIdx(config, "micp")]

(***************************************************************************)
(* C23: the transmissibility multiplier is the upstream cell's.            *)
(***************************************************************************)
MultiplierLookups(phase) ==
    {l \in lookups : l.what = "rockCompTransMultiplier" /\ l.phase = phase}

\* C23: for every active phase computeFlux looks the rock-compaction
\* multiplier up exactly once, with the upstream cell's intensive quantities
\* and the upstream cell's own global index, and the multiplier in the
\* phase's Darcy flux is that cell's value, not a mix of both cells'.
C23_UpstreamOnlyMultiplier ==
    (pc = "done" /\ args.op = "flux") =>
        \A p \in ActivePhases :
            LET up == upstreamOf(p)
                own == rockCompTransMultiplier(intQuants, up, globalSpaceIndex(up))
            IN  /\ Cardinality(MultiplierLookups(p)) = 1
                /\ \A l \in MultiplierLookups(p) :
                       /\ l.dof = up
                       /\ l.globalIndex = globalSpaceIndex(l.dof)
                /\ darcyFlux(intQuants, args.face, p).v =
                       potentialOf(p) * Value(mobility(intQuants, up, p)).v * own.v
                           * ((-args.face.trans) \div args.face.faceArea)

\* C23 witness: a flux call in which one phase flows from the exterior cell
\* and another from the interior one, and the two cells' multipliers differ
C23_Witness ==
    /\ pc = "done"
    /\ args.op = "flux"
    /\ \E p, q \in ActivePhases :
           /\ upstreamOf(p) = args.face.exteriorIndex
           /\ upstreamOf(q) = args.face.interiorIndex
           /\ potentialOf(p) # 0
           /\ potentialOf(q) # 0
    /\ rockCompTransMultiplier(intQuants, args.face.interiorIndex,
                               globalSpaceIndex(args.face.interiorIndex)).v
         # rockCompTransMultiplier(intQuants, args.face.exteriorIndex,
                                   globalSpaceIndex(args.face.exteriorIndex)).v

(***************************************************************************)
(* Index lookups that fail.  The phase loops ask                           *)
(* Indices::canonicalToActiveComponentIndex for the slot of a component    *)
(* right before each write; for a component that is not enabled the lookup *)
(* fails, and the failure leaves computeStorage / computeFlux at once: the *)
(* code neither tests the index nor catches anything.  An outcome is a     *)
(* record [failed, vec] with the output vector as the call left it.        *)
(***************************************************************************)
\* vec[conti0EqIdx + activeCompIdx] += val
Write(comp, val) == [comp |-> comp, val |-> val]

\* the writes of one iteration of computeStorage's phase loop, in order
StorageWrites(cfg, iq, dof, phase, keep) ==
    LET sv == surfaceVolume(iq, dof, phase, keep)
    IN  <<Write(solventComponentIndex(phase), sv)>>
        \o (IF phase = oilPhaseIdx /\ enableDissolvedGas(cfg)
            THEN <<Write(gasCompIdx, Mul(Decay(Rs(iq, dof), keep), sv))>>
            ELSE <<>>)
        \o (IF phase = gasPhaseIdx /\ enableVaporizedOil(cfg)
            THEN <<Write(oilCompIdx, Mul(Decay(Rv(iq, dof), keep), sv))>>
            ELSE <<>>)
        \o (IF phase = gasPhaseIdx /\ enableVaporizedWater(cfg)
            THEN <<Write(waterCompIdx, Mul(Decay(Rvw(iq, dof), keep), sv))>>
            ELSE <<>>)

\* the writes of the phase loop from phaseIdx on, under the compacted
\* numbering (an inactive phase is skipped)
RECURSIVE StorageLoopWrites(_, _, _, _, _)
StorageLoopWrites(cfg, iq, dof, keep, phaseIdx) ==
    IF phaseIdx >= numPhases
    THEN <<>>
    ELSE (IF phaseIsActive(cfg, cfg.phaseAt[phaseIdx + 1])
          THEN StorageWrites(cfg, iq, dof, cfg.phaseAt[phaseIdx + 1], keep)
          ELSE <<>>)
         \o StorageLoopWrites(cfg, iq, dof, keep, phaseIdx + 1)

\* the value evalPhaseFluxes_ adds: x, or x * referenceDensity in mass mode
FluxValue(cfg, x, phase, pvtRegionIdx) ==
    IF blackoilConserveSurfaceVolume(cfg)
    THEN x
    ELSE Mul(x, Const(referenceDensity(phase, pvtRegionIdx)))

\* the writes of evalPhaseFluxes_ for one phase, in order
FluxWrites(cfg, iq, face, phase) ==
    LET pd == phasePressureDiff(iq, face, phase)
        up == upstreamDof(face, pd.upIdx)
        pvtRegionIdx == pvtRegionIndex(iq, up)
        keep == keepUpstreamDerivatives(face, pd.upIdx)
        surfaceVolumeFlux == Mul(getInvB_(iq, up, phase, keep), darcyFlux(iq, face, phase))
    IN  <<Write(solventComponentIndex(phase),
                FluxValue(cfg, surfaceVolumeFlux, phase, pvtRegionIdx))>>
        \o (IF phase = oilPhaseIdx /\ enableDissolvedGas(cfg)
            THEN <<Write(gasCompIdx,
                         FluxValue(cfg, Mul(Decay(Rs(iq, up), keep), surfaceVolumeFlux),
                                   gasPhaseIdx, pvtRegionIdx))>>
            ELSE <<>>)
        \o (IF phase = gasPhaseIdx /\ enableVaporizedOil(cfg)
            THEN <<Write(oilCompIdx,
                         FluxValue(cfg, Mul(Decay(Rv(iq, up), keep), surfaceVolumeFlux),
                                   oilPhaseIdx, pvtRegionIdx))>>
            ELSE <<>>)
        \o (IF phase = gasPhaseIdx /\ enableVaporizedWater(cfg)
            THEN <<Write(waterCompIdx,
                         FluxValue(cfg, Mul(Decay(Rvw(iq, up), keep), surfaceVolumeFlux),
                                   waterPhaseIdx, pvtRegionIdx))>>
            ELSE <<>>)

RECURSIVE FluxLoopWrites(_, _, _, _)
FluxLoopWrites(cfg, iq, face, phaseIdx) ==
    IF phaseIdx >= numPhases
    THEN <<>>
    ELSE (IF phaseIsActive(cfg, cfg.phaseAt[phaseIdx + 1])
          THEN FluxWrites(cfg, iq, face, cfg.phaseAt[phaseIdx + 1])
          ELSE <<>>)
         \o FluxLoopWrites(cfg, iq, face, phaseIdx + 1)

\* mutant: a failed lookup is swallowed, the contribution skipped
IndexedAdd_Swallow(cfg, r, w) ==
    IF r.failed \/ canonicalToActiveComponentIndex(cfg, w.comp) < 0
    THEN r
    ELSE [failed |-> FALSE, vec |-> AddTo(r.vec, compEqIdx(cfg, w.comp), w.val)]

\* one lookup and the write that follows it
IndexedAdd(cfg, r, w) ==
    IF r.failed
    THEN r
    ELSE IF canonicalToActiveComponentIndex(cfg, w.comp) < 0
    THEN [failed |-> TRUE, vec |-> r.vec]
    ELSE [failed |-> FALSE, vec |-> AddTo(r.vec, compEqIdx(cfg, w.comp), w.val)]

RECURSIVE ApplyWrites(_, _, _, _)
ApplyWrites(cfg, r, writes, i) ==
    IF i > Len(writes)
    THEN r
    ELSE ApplyWrites(cfg, IndexedAdd(cfg, r, writes[i]), writes, i + 1)

\* computeStorage with its index lookups
computeStorageChecked(prior, cfg, iq, dof, timeIdx, keep) ==
    LET r == ApplyWrites(cfg, [failed |-> FALSE, vec |-> ResetVector(prior, cfg)],
                         StorageLoopWrites(cfg, iq, dof, keep, 0), 1)
    IN  IF r.failed
        THEN r
        ELSE [failed |-> FALSE,
              vec |-> AddStorageChain(cfg,
                          adaptMassConservationQuantities_(cfg, r.vec,
                                                           pvtRegionIndex(iq, dof)),
                          iq, dof, 1)]

\* computeFlux with its index lookups
computeFluxChecked(prior, cfg, iq, face) ==
    LET r == ApplyWrites(cfg, [failed |-> FALSE, vec |-> ResetVector(prior, cfg)],
                         FluxLoopWrites(cfg, iq, face, 0), 1)
    IN  IF r.failed
        THEN r
        ELSE [failed |-> FALSE,
              vec |-> addDiffusiveFlux(cfg, ComputeFluxChain(cfg, r.vec, iq, face, 1),
                                       iq, face)]

(***************************************************************************)
(* The specification of the failing lookups: computeStorage and            *)
(* computeFlux under the compacted numbering, the solubility switches      *)
(* free of the set of active phases.                                       *)
(***************************************************************************)
CompactedConfigs ==
    {cfg \in [active : SUBSET Phases,
              phaseAt : DefaultNumbering \cup {<<"gas", "oil", "water">>},
              threePhase : {FALSE},
              enableDissolvedGas : BOOLEAN,
              enableVaporizedOil : BOOLEAN,
              enableVaporizedWater : BOOLEAN,
              blackoilConserveSurfaceVolume : BOOLEAN,
              modules : {{}, {"foam"}},
              enableDiffusion : {FALSE},
              scalingFactor : {1}] : cfg.active # {} /\ cfg.active # Phases}

InitLookups ==
    /\ config \in CompactedConfigs
    /\ intQuants \in {iq \in [{0, 1} -> {1, NumSnapshots}] : iq[0] # iq[1]}
    /\ args = NoCall
    /\ pc = "ready"
    /\ storage = NoVector
    /\ flux = NoVector
    /\ source = NoVector
    /\ residual = NoVector
    /\ pending = {}
    /\ lookups = {}
    /\ calls = <<>>
    /\ values = NoVector
    /\ result = NoResult
    /\ extQuants = NoQuantities
    /\ buffers = NoBuffers

ComputeStorageChecked ==
    /\ pc = "ready"
    /\ \E dofIdx \in DOMAIN intQuants, lhsEvaluation \in BOOLEAN :
           LET r == computeStorageChecked(storage, config, intQuants, dofIdx, 0,
                                          lhsEvaluation)
           IN  /\ args' = [op |-> "storage", dofIdx |-> dofIdx, timeIdx |-> 0,
                           lhsEvaluation |-> lhsEvaluation]
               /\ storage' = r.vec
               /\ pc' = IF r.failed THEN "failed" ELSE "done"
    /\ UNCHANGED <<config, intQuants, flux, source, residual, pending, lookups, calls,
                 values, result, extQuants, buffers>>

ComputeFluxChecked ==
    /\ pc = "ready"
    /\ \E face \in Faces :
           LET r == computeFluxChecked(flux, config, intQuants, face)
           IN  /\ args' = [op |-> "flux", face |-> face, timeIdx |-> 0]
               /\ flux' = r.vec
               /\ pc' = IF r.failed THEN "failed" ELSE "done"
    /\ UNCHANGED <<config, intQuants, storage, source, residual, pending, lookups, calls,
                 values, result, extQuants, buffers>>

NextLookups == ComputeStorageChecked \/ ComputeFluxChecked

SpecLookups == InitLookups /\ [][NextLookups]_vars

(***************************************************************************)
(* C24: an invalid configuration fails fast.                               *)
(***************************************************************************)
\* the writes of the call that was made, and the vector it wrote to
WritesOfCall ==
    IF args.op = "storage"
    THEN StorageLoopWrites(config, intQuants, args.dofIdx, args.lhsEvaluation, 0)
    ELSE FluxLoopWrites(config, intQuants, args.face, 0)

VectorOfCall == IF args.op = "storage" THEN storage ELSE flux

\* the positions of the writes that ask for the slot of a disabled component
DisabledWrites == {i \in 1..Len(WritesOfCall) : ~compEnabled(config, WritesOfCall[i].comp)}

FirstDisabledWrite == CHOOSE i \in DisabledWrites : \A j \in DisabledWrites : i <= j

\* the sum of the values the first n writes add to the slot of comp
RECURSIVE SumBefore(_, _, _)
SumBefore(writes, n, comp) ==
    IF n = 0
    THEN 0
    ELSE SumBefore(writes, n - 1, comp)
         + (IF writes[n].comp = comp THEN writes[n].val.v ELSE 0)

\* the slots of the enabled components
CompSlots == {compEqIdx(config, c) : c \in {k \in Comps : compEnabled(config, k)}}

MaxValue == 2
MaxCorner == 3

\* the number of primary variables: pressure and the two continuity ones
numPrimaryVars == 3

\* the default of setZero's equation argument
allEquations == -1

\* Indices: pressureEqIdx, contiNEqIdx and contiWEqIdx number the entries
IndexNumberings ==
    {n \in [pressureEqIdx : 0..(numPrimaryVars - 1),
            contiNEqIdx : 0..(numPrimaryVars - 1),
            contiWEqIdx : 0..(numPrimaryVars - 1)] :
        /\ n.pressureEqIdx # n.contiNEqIdx
        /\ n.pressureEqIdx # n.contiWEqIdx
        /\ n.contiNEqIdx # n.contiWEqIdx}

PrimaryVariables == [0..(numPrimaryVars - 1) -> 0..MaxValue]

\* a one-dimensional element and element.geometry().center()
Elements == {e \in [left : 0..MaxCorner, right : 0..MaxCorner] : e.left < e.right}

center(element) == (element.left + element.right) \div 2

\* what a call hands back: a value, or the exception that left it
Returned(x) == [kind |-> "value", value |-> x]

Thrown(exception) == [kind |-> exception]

\* the position-based methods of a concrete problem
ImplInitSatAtPos(globalPos) == Returned(globalPos + 1)

ImplInitConcentrationAtPos(globalPos) == Returned(2 * globalPos + 10)

\* IMPETProblem2P2C::initSatAtPos and initConcentrationAtPos
initSatAtPos(globalPos) == Thrown("NotImplemented")

initConcentrationAtPos(globalPos) == Thrown("NotImplemented")

\* asImp_().initSatAtPos(globalPos): the concrete problem's method when it
\* has one, the inherited one otherwise
asImp_initSatAtPos(cfg, globalPos) ==
    IF "initSatAtPos" \in cfg.overrides
    THEN ImplInitSatAtPos(globalPos)
    ELSE initSatAtPos(globalPos)

asImp_initConcentrationAtPos(cfg, globalPos) ==
    IF "initConcentrationAtPos" \in cfg.overrides
    THEN ImplInitConcentrationAtPos(globalPos)
    ELSE initConcentrationAtPos(globalPos)

\* mutant: initSat asks for the concentration
initSat_Concentration(cfg, element) == asImp_initConcentrationAtPos(cfg, center(element))

initSat(cfg, element) == asImp_initSatAtPos(cfg, center(element))

initConcentration(cfg, element) == asImp_initConcentrationAtPos(cfg, center(element))

\* the truth value of an int used as a condition
Truthy(x) == x # 0

\* setZero(values, equation): the outcome [result, values]
setZero(cfg, vals, equation) ==
    LET idx == cfg.indices
    IN  IF equation = idx.pressureEqIdx
        THEN [result |-> Returned(0),
              values |-> [vals EXCEPT ![idx.pressureEqIdx] = 0]]
        ELSE IF equation = idx.contiNEqIdx \/ Truthy(idx.contiWEqIdx)
        THEN [result |-> Returned(0),
              values |-> [vals EXCEPT ![idx.contiNEqIdx] = 0, ![idx.contiWEqIdx] = 0]]
        ELSE IF equation = allEquations
        THEN [result |-> Returned(0),
              values |-> [vals EXCEPT ![idx.pressureEqIdx] = 0,
                                      ![idx.contiNEqIdx] = 0,
                                      ![idx.contiWEqIdx] = 0]]
        ELSE [result |-> Thrown("InvalidStateException"), values |-> vals]

ProblemConfigs ==
    [indices : IndexNumberings,
     overrides : SUBSET {"initSatAtPos", "initConcentrationAtPos"}]

InitProblem ==
    /\ config \in ProblemConfigs
    /\ intQuants = <<>>
    /\ args = NoCall
    /\ pc = "ready"
    /\ storage = NoVector
    /\ flux = NoVector
    /\ source = NoVector
    /\ residual = NoVector
    /\ pending = {}
    /\ lookups = {}
    /\ calls = <<>>
    /\ values \in PrimaryVariables
    /\ result = NoResult
    /\ extQuants = NoQuantities
    /\ buffers = NoBuffers

\* the call has returned, or an exception has left it
Outcome(r) == IF r.kind = "value" THEN "done" ELSE "thrown"

SetZero ==
    /\ pc = "ready"
    /\ \E equation \in allEquations..numPrimaryVars :
           LET r == setZero(config, values, equation)
           IN  /\ args' = [op |-> "setZero", equation |-> equation, values |-> values]
               /\ values' = r.values
               /\ result' = r.result
               /\ pc' = Outcome(r.result)
    /\ UNCHANGED <<config, intQuants, storage, flux, source, residual, pending, lookups,
                   calls, extQuants, buffers>>

InitSat ==
    /\ pc = "ready"
    /\ \E element \in Elements :
           /\ args' = [op |-> "initSat", element |-> element]
           /\ result' = initSat(config, element)
           /\ pc' = Outcome(initSat(config, element))
    /\ UNCHANGED <<config, intQuants, storage, flux, source, residual, pending, lookups,
                   calls, values, extQuants, buffers>>

InitConcentration ==
    /\ pc = "ready"
    /\ \E element \in Elements :
           /\ args' = [op |-> "initConcentration", element |-> element]
           /\ result' = initConcentration(config, element)
           /\ pc' = Outcome(initConcentration(config, element))
    /\ UNCHANGED <<config, intQuants, storage, flux, source, residual, pending, lookups,
                   calls, values, extQuants, buffers>>

NextProblem == SetZero \/ InitSat \/ InitConcentration

SpecProblem == InitProblem /\ [][NextProblem]_vars

SetZeroCalled == pc # "ready" /\ args.op = "setZero"

(***************************************************************************)
(* C25: setZero with the default argument and with pressureEqIdx.          *)
(***************************************************************************)
\* C25: setZero with equation = -1 sets the three entries to zero; with
\* equation = pressureEqIdx it sets the pressure entry to zero and leaves
\* the two continuity entries as they were.
C25_SetZeroDefaultAndPressure ==
    SetZeroCalled =>
        /\ args.equation = allEquations =>
               /\ pc = "done"
               /\ \A i \in DOMAIN values : values[i] = 0
        /\ args.equation = config.indices.pressureEqIdx =>
               /\ pc = "done"
               /\ values = [args.values EXCEPT ![config.indices.pressureEqIdx] = 0]

(***************************************************************************)
(* C26: setZero with an equation index that names no equation.             *)
(***************************************************************************)
\* C26: setZero with an equation that is neither -1 nor one of the three
\* equation indices raises InvalidStateException and leaves the vector
\* unchanged.
C26_SetZeroInvalidEquation ==
    (/\ SetZeroCalled
     /\ args.equation \notin {allEquations, config.indices.pressureEqIdx,
                              config.indices.contiNEqIdx, config.indices.contiWEqIdx}) =>
        /\ pc = "thrown"
        /\ result = Thrown("InvalidStateException")
        /\ values = args.values

(***************************************************************************)
(* C27: the initial conditions delegate to the position-based methods.     *)
(***************************************************************************)
\* C27: initSat(element) and initConcentration(element) return what the
\* concrete problem's initSatAtPos / initConcentrationAtPos returns at the
\* centre of the element; without such a method the inherited one raises
\* NotImplemented and no value is returned.
C27_InitialConditions ==
    /\ (pc # "ready" /\ args.op = "initSat") =>
           IF "initSatAtPos" \in config.overrides
           THEN /\ pc = "done"
                /\ result = ImplInitSatAtPos(center(args.element))
           ELSE /\ pc = "thrown"
                /\ result = [kind |-> "NotImplemented"]
    /\ (pc # "ready" /\ args.op = "initConcentration") =>
           IF "initConcentrationAtPos" \in config.overrides
           THEN /\ pc = "done"
                /\ result = ImplInitConcentrationAtPos(center(args.element))
           ELSE /\ pc = "thrown"
                /\ result = [kind |-> "NotImplemented"]

\* C27 witness: a problem with initSatAtPos and without
\* initConcentrationAtPos; initSat on an element whose centre is not a
\* corner has returned the saturation there
C27_Witness ==
    /\ pc = "done"
    /\ args.op = "initSat"
    /\ config.overrides = {"initSatAtPos"}
    /\ center(args.element) \notin {args.element.left, args.element.right}
    /\ result.kind = "value"
    /\ result.value = center(args.element) + 1

(***************************************************************************)
(* StokesExtensiveQuantities                                               *)
(* (ewoms/models/stokes/stokesextensivequantities.hh).  The object is the  *)
(* record extQuants: its members, and in `assigned` the members the last   *)
(* update() has assigned.  A member that was never assigned holds whatever *)
(* its storage holds.                                                      *)
(***************************************************************************)
\* the dimension of the world and the largest velocity / normal component
dimWorld == 2
MaxComponent == 1

Dims == 0..(dimWorld - 1)

DimVectors == [Dims -> (-MaxComponent)..MaxComponent]

\* the sum over the dimensions, as the loop of update() accumulates it
RECURSIVE DotUpTo(_, _, _)
DotUpTo(a, b, n) ==
    IF n = 0 THEN 0 ELSE DotUpTo(a, b, n - 1) + a[n - 1] * b[n - 1]

\* upstreamWeight() and downstreamWeight()
upstreamWeight == 1
downstreamWeight == 0

\* gradCalc.calculateScalarValue / calculateGradient with a callback: the
\* quantity at the integration point, and its gradient
calculateScalarValue(ip, quantity) == ip[quantity]

calculateGradient(ip, quantity) == [d \in Dims |-> ip[quantity] + d]

\* mutant: the indices are swapped also when nothing flows
UpstreamDownstream_SwapAtZero(scvf, volumeFlux) ==
    IF volumeFlux <= 0
    THEN [upstreamIdx_ |-> scvf.exteriorIndex, downstreamIdx_ |-> scvf.interiorIndex]
    ELSE [upstreamIdx_ |-> scvf.interiorIndex, downstreamIdx_ |-> scvf.exteriorIndex]

\* the upstream and the downstream dof
UpstreamDownstream(scvf, volumeFlux) ==
    IF volumeFlux < 0
    THEN [upstreamIdx_ |-> scvf.exteriorIndex, downstreamIdx_ |-> scvf.interiorIndex]
    ELSE [upstreamIdx_ |-> scvf.interiorIndex, downstreamIdx_ |-> scvf.exteriorIndex]

\* the members update() assigns
AssignedByUpdate ==
    {"insideIdx_", "outsideIdx_", "onBoundary_", "normal_", "pressure_", "pressureGrad_",
     "density_", "molarDensity_", "viscosity_", "volumeFlux_", "velocityGrad_",
     "upstreamIdx_", "downstreamIdx_"}

\* update(elemCtx, scvfIdx, timeIdx, isBoundaryFace) on the object eq; scvf
\* is the face, ip the quantities at its integration point
update(eq, scvf, ip, isBoundaryFace) ==
    LET volumeFlux == DotUpTo(eq.velocity_, scvf.normal, dimWorld)
        ud == UpstreamDownstream(scvf, volumeFlux)
    IN  [assigned |-> eq.assigned \cup AssignedByUpdate,
         insideIdx_ |-> scvf.interiorIndex,
         outsideIdx_ |-> scvf.exteriorIndex,
         onBoundary_ |-> isBoundaryFace,
         normal_ |-> scvf.normal,
         pressure_ |-> calculateScalarValue(ip, "pressure"),
         pressureGrad_ |-> calculateGradient(ip, "pressure"),
         density_ |-> calculateScalarValue(ip, "density"),
         molarDensity_ |-> calculateScalarValue(ip, "molarDensity"),
         viscosity_ |-> calculateScalarValue(ip, "viscosity"),
         velocityGrad_ |-> [d \in Dims |-> calculateGradient(ip.velocity, d)],
         volumeFlux_ |-> volumeFlux,
         velocity_ |-> eq.velocity_,
         upstreamIdx_ |-> ud.upstreamIdx_,
         downstreamIdx_ |-> ud.downstreamIdx_]

\* the faces of an element with two dofs, and the quantities at the
\* integration point
StokesFaces ==
    {f \in [interiorIndex : {0, 1}, exteriorIndex : {0, 1}, normal : DimVectors] :
        f.interiorIndex # f.exteriorIndex}

\* the fluid at rest or moving along the diagonal
IntegrationPoints ==
    [pressure : {3}, density : {2}, molarDensity : {1}, viscosity : {1},
     velocity : [Dims -> {0}] \cup [Dims -> {MaxComponent}]]

InitStokes ==
    /\ config = [phaseIdx |-> 0]
    /\ intQuants = <<>>
    /\ args = NoCall
    /\ pc = "ready"
    /\ storage = NoVector
    /\ flux = NoVector
    /\ source = NoVector
    /\ residual = NoVector
    /\ pending = {}
    /\ lookups = {}
    /\ calls = <<>>
    /\ values = NoVector
    /\ result = NoResult
    /\ \E v \in DimVectors : extQuants = [assigned |-> {}, velocity_ |-> v]
    /\ buffers = NoBuffers

\* update() overwrites every member it assigns, so the object before the
\* call matters through velocity_ only, which no call changes: one call from
\* every content of velocity_ covers the calls that follow it
Update ==
    /\ pc = "ready"
    /\ \E scvf \in StokesFaces, ip \in IntegrationPoints, isBoundaryFace \in BOOLEAN :
           /\ args' = [op |-> "update", scvf |-> scvf, ip |-> ip,
                       isBoundaryFace |-> isBoundaryFace]
           /\ extQuants' = update(extQuants, scvf, ip, isBoundaryFace)
    /\ pc' = "done"
    /\ UNCHANGED <<config, intQuants, storage, flux, source, residual, pending, lookups,
                   calls, values, result, buffers>>

NextStokes == Update

SpecStokes == InitStokes /\ [][NextStokes]_vars

Updated == pc = "done" /\ args.op = "update"

(***************************************************************************)
(* C28: the upstream and downstream dofs of a face.                        *)
(***************************************************************************)
\* C28: after every update the upstream and downstream indices are the
\* interior and exterior indices of the face in one order or the other: the
\* upstream dof is the interior one when volumeFlux >= 0 and the exterior
\* one when volumeFlux < 0; the two weights sum to one, the whole weight on
\* the upstream dof.
C28_UpstreamDownstream ==
    Updated =>
        /\ extQuants.insideIdx_ = args.scvf.interiorIndex
        /\ extQuants.outsideIdx_ = args.scvf.exteriorIndex
        /\ \/ /\ extQuants.upstreamIdx_ = extQuants.insideIdx_
              /\ extQuants.downstreamIdx_ = extQuants.outsideIdx_
           \/ /\ extQuants.upstreamIdx_ = extQuants.outsideIdx_
              /\ extQuants.downstreamIdx_ = extQuants.insideIdx_
        /\ extQuants.volumeFlux_ >= 0 => extQuants.upstreamIdx_ = extQuants.insideIdx_
        /\ extQuants.volumeFlux_ < 0 => extQuants.upstreamIdx_ = extQuants.outsideIdx_
        /\ upstreamWeight + downstreamWeight = 1
        /\ upstreamWeight = 1

\* C28 witness: an update with a volume flux of exactly zero from a
\* nonzero velocity, the interior dof upstream
C28_Witness ==
    /\ Updated
    /\ extQuants.volumeFlux_ = 0
    /\ \E d \in Dims : extQuants.velocity_[d] # 0
    /\ extQuants.upstreamIdx_ = args.scvf.interiorIndex
    /\ extQuants.downstreamIdx_ = args.scvf.exteriorIndex

(***************************************************************************)
(* C29: what update() reads has been assigned.                             *)
(***************************************************************************)
\* the members update() reads or checks as defined
ReadByUpdate ==
    {"normal_", "density_", "viscosity_", "velocity_", "pressureGrad_", "velocityGrad_",
     "volumeFlux_"}

\* C29: every member update() reads or checks as defined was assigned in
\* the same call, and volumeFlux is the dot product of the velocity at the
\* integration point and the face normal.
C29_Definedness ==
    Updated =>
        /\ ReadByUpdate \subseteq extQuants.assigned
        /\ extQuants.volumeFlux_ = DotUpTo(args.ip.velocity, args.scvf.normal, dimWorld)

(***************************************************************************)
(* VtkCompositionModule (ewoms/io/vtkcompositionmodule.hh).  The           *)
(* configuration is the set of output flags that are on; the object is     *)
(* the record buffers: the buffers allocBuffers resized, the entries       *)
(* <<buffer, global dof index>> processElement wrote, and the buffers      *)
(* commitBuffers handed to the writer.                                     *)
(***************************************************************************)
\* the largest global index of a degree of freedom
MaxDofIndex == 2

\* a statement `if (flag()) ... buffer ...`
Guarded(flag, buffer) == [flag |-> flag, buffer |-> buffer]

OutputFlags ==
    {"moleFracOutput_", "massFracOutput_", "totalMassFracOutput_", "totalMoleFracOutput_",
     "molarityOutput_", "fugacityOutput_", "fugacityCoeffOutput_"}

OutputBuffers ==
    {"moleFrac_", "massFrac_", "totalMassFrac_", "totalMoleFrac_", "molarity_",
     "fugacity_", "fugacityCoeff_"}

\* the quantity (parameter) behind a buffer
FlagOfBuffer(buffer) ==
    CASE buffer = "moleFrac_" -> "moleFracOutput_"
      [] buffer = "massFrac_" -> "massFracOutput_"
      [] buffer = "totalMassFrac_" -> "totalMassFracOutput_"
      [] buffer = "totalMoleFrac_" -> "totalMoleFracOutput_"
      [] buffer = "molarity_" -> "molarityOutput_"
      [] buffer = "fugacity_" -> "fugacityOutput_"
      [] buffer = "fugacityCoeff_" -> "fugacityCoeffOutput_"

\* the guarded resizes of allocBuffers
allocBuffersStatements ==
    {Guarded("moleFracOutput_", "moleFrac_"),
     Guarded("massFracOutput_", "massFrac_"),
     Guarded("totalMassFracOutput_", "totalMassFrac_"),
     Guarded("totalMoleFracOutput_", "totalMoleFrac_"),
     Guarded("molarityOutput_", "molarity_"),
     Guarded("fugacityOutput_", "fugacity_"),
     Guarded("fugacityCoeffOutput_", "fugacityCoeff_")}

\* mutant: the fugacities are written under the flag of the coefficients
processElementStatements_FugacityFlag ==
    {Guarded("moleFracOutput_", "moleFrac_"),
     Guarded("massFracOutput_", "massFrac_"),
     Guarded("molarityOutput_", "molarity_"),
     Guarded("fugacityCoeffOutput_", "fugacityCoeff_"),
     Guarded("totalMassFracOutput_", "totalMassFrac_"),
     Guarded("totalMoleFracOutput_", "totalMoleFrac_"),
     Guarded("fugacityCoeffOutput_", "fugacity_")}

\* the guarded writes of processElement, per degree of freedom
processElementStatements ==
    {Guarded("moleFracOutput_", "moleFrac_"),
     Guarded("massFracOutput_", "massFrac_"),
     Guarded("molarityOutput_", "molarity_"),
     Guarded("fugacityCoeffOutput_", "fugacityCoeff_"),
     Guarded("totalMassFracOutput_", "totalMassFrac_"),
     Guarded("totalMoleFracOutput_", "totalMoleFrac_"),
     Guarded("fugacityOutput_", "fugacity_")}

\* the guarded commits of commitBuffers
commitBuffersStatements ==
    {Guarded("moleFracOutput_", "moleFrac_"),
     Guarded("massFracOutput_", "massFrac_"),
     Guarded("molarityOutput_", "molarity_"),
     Guarded("totalMassFracOutput_", "totalMassFrac_"),
     Guarded("totalMoleFracOutput_", "totalMoleFrac_"),
     Guarded("fugacityOutput_", "fugacity_"),
     Guarded("fugacityCoeffOutput_", "fugacityCoeff_")}

\* the buffers of the statements whose flag is on
Executed(cfg, statements) == {st.buffer : st \in {g \in statements : g.flag \in cfg.flags}}

allocBuffers(cfg, b) ==
    [resized |-> b.resized \cup Executed(cfg, allocBuffersStatements),
     written |-> b.written,
     committed |-> {}]

\* processElement(elemCtx): dofs is the set of globalSpaceIndex(i, 0) of the
\* primary dofs of the element
processElement(cfg, b, dofs) ==
    [b EXCEPT !.written = @ \cup (Executed(cfg, processElementStatements) \X dofs)]

\* commitBuffers(baseWriter)
commitBuffers(cfg, b, writer) ==
    IF writer # "VtkMultiWriter"
    THEN b
    ELSE [b EXCEPT !.committed = @ \cup Executed(cfg, commitBuffersStatements)]

\* the elements: intervals of neighbouring dofs
ElementDofs == {{i, i + 1} : i \in 0..(MaxDofIndex - 1)}

InitVtk ==
    /\ config \in [flags : SUBSET OutputFlags]
    /\ intQuants = <<>>
    /\ args = NoCall
    /\ pc = "ready"
    /\ storage = NoVector
    /\ flux = NoVector
    /\ source = NoVector
    /\ residual = NoVector
    /\ pending = {}
    /\ lookups = {}
    /\ calls = <<>>
    /\ values = NoVector
    /\ result = NoResult
    /\ extQuants = NoQuantities
    /\ buffers = [resized |-> {}, written |-> {}, committed |-> {}]

\* the output step begins: allocBuffers()
AllocBuffers ==
    /\ pc = "ready"
    /\ buffers' = allocBuffers(config, buffers)
    /\ args' = [op |-> "allocBuffers"]
    /\ pc' = "allocated"
    /\ UNCHANGED <<config, intQuants, storage, flux, source, residual, pending, lookups,
                   calls, values, result, extQuants>>

\* processElement(elemCtx) for one element of the grid
ProcessElement ==
    /\ pc = "allocated"
    /\ \E dofs \in ElementDofs :
           /\ buffers' = processElement(config, buffers, dofs)
           /\ args' = [op |-> "processElement", dofs |-> dofs]
    /\ pc' = "allocated"
    /\ UNCHANGED <<config, intQuants, storage, flux, source, residual, pending, lookups,
                   calls, values, result, extQuants>>

\* the output step ends: commitBuffers(baseWriter)
CommitBuffers ==
    /\ pc = "allocated"
    /\ \E writer \in {"VtkMultiWriter", "other"} :
           /\ buffers' = commitBuffers(config, buffers, writer)
           /\ args' = [op |-> "commitBuffers", writer |-> writer]
    /\ pc' = "committed"
    /\ UNCHANGED <<config, intQuants, storage, flux, source, residual, pending, lookups,
                   calls, values, result, extQuants>>

NextVtk == AllocBuffers \/ ProcessElement \/ CommitBuffers

SpecVtk == InitVtk /\ [][NextVtk]_vars

(***************************************************************************)
(* C30: the buffer protocol of the composition output.                     *)
(***************************************************************************)
\* the buffers of the quantities whose flag is on
EnabledBuffers == {b \in OutputBuffers : FlagOfBuffer(b) \in config.flags}

\* the buffers processElement has written to
WrittenBuffers == {w[1] : w \in buffers.written}

\* C30: allocBuffers resizes one buffer per enabled quantity; processElement
\* writes, for each dof of the element, exactly the resized buffers and
\* commitBuffers commits exactly the resized buffers, never a buffer of a
\* disabled quantity; with a writer that is no VTK multi-writer nothing is
\* committed.
C30_BufferProtocol ==
    (pc \in {"allocated", "committed"}) =>
        /\ buffers.resized = EnabledBuffers
        /\ WrittenBuffers \subseteq buffers.resized
        /\ (args.op = "processElement") =>
               \A b \in buffers.resized : \A i \in args.dofs : <<b, i>> \in buffers.written
        /\ buffers.committed \subseteq buffers.resized
        /\ (pc = "committed") =>
               buffers.committed = IF args.writer = "VtkMultiWriter"
                                   THEN buffers.resized
                                   ELSE {}
        /\ (pc = "allocated") => buffers.committed = {}

\* C30 witness: fugacities on and fugacity coefficients off; two elements
\* processed and the buffers committed to a VTK multi-writer
C30_Witness ==
    /\ pc = "committed"
    /\ args.writer = "VtkMultiWriter"
    /\ "fugacityOutput_" \in config.flags
    /\ "fugacityCoeffOutput_" \notin config.flags
    /\ "fugacity_" \in buffers.committed
    /\ "fugacityCoeff_" \notin buffers.committed
    /\ \A i \in 0..MaxDofIndex : <<"fugacity_", i>> \in buffers.written

====
